---- MODULE Spec2Model ----
(***************************************************************************)
(* Model of the external import reconciliation engine of triiio-backend    *)
(* (internal/imoveis/import_service.go, service.go, repository.go and the  *)
(* GORM models).  The relational store is a set of tables, each a sequence *)
(* whose index is the auto-increment primary key.  A reference column      *)
(* holds Null (SQL NULL, the column was omitted from the INSERT), 0 (the   *)
(* Go zero value was written) or the id of a row.                          *)
(***************************************************************************)
EXTENDS Integers, Sequences, FiniteSets, TLC

VARIABLES
    imoveis,         \* table imoveis
    enderecos,       \* table enderecos
    empreendimentos, \* table empreendimentos
    precoVendas,     \* table preco_vendas
    precoAlugueis,   \* table preco_aluguels
    corretores,      \* table corretores_principais
    organizacoes,    \* table organizacoes
    anexos,          \* table anexos
    upstream,        \* the provider's detail record per external id
    published,       \* the provider's published list (external ids)
    rs,              \* ImportPublishedProperties: locals of the running batch
    hist,            \* observations about the runs made so far
    ret              \* last direct call of an upserter / synchronizer

tables == <<imoveis, enderecos, empreendimentos, precoVendas, precoAlugueis,
            corretores, organizacoes, anexos>>
vars == <<imoveis, enderecos, empreendimentos, precoVendas, precoAlugueis,
          corretores, organizacoes, anexos, upstream, published, rs, hist, ret>>

-----------------------------------------------------------------------------
(* Bounds of the exploration *)

MaxRuns == 2      \* batches run one after the other
MaxList == 2      \* length of the published list
MaxImgs == 2      \* length of an image list
MaxSyncs == 2     \* direct calls of the attachment synchronizer
MaxHeals == 3     \* successive synchronizations of one property

Runners == {1, 2}         \* invocations of ImportPublishedProperties
ExtIds == {1, 2}          \* external property ids
RelIds == {0, 1, 2}       \* external ids of related entities (0: no id)
Urls == {"u1", "u2"}
Null == -1

-----------------------------------------------------------------------------
(* Helpers *)

RECURSIVE Itoa(_)
\* fmt.Sprintf("%d", n): the decimal digits of n, most significant first
Itoa(n) == IF n < 10 THEN <<n>> ELSE Itoa(n \div 10) \o <<n % 10>>

\* First(&row) orders by primary key: the smallest index in S, 0 if S is empty
FirstOf(S) == IF S = {} THEN 0 ELSE CHOOSE i \in S : \A j \in S : i <= j

\* db.Where("id_integracao = ?", key).First(&row): local id, 0 when not found
FindByKey(t, key) ==
    FirstOf({i \in 1..Len(t) : t[i].idInt = key /\ ~t[i].deleted})

\* the unique index on id_integracao covers every stored row
KeyTaken(t, key) == \E i \in 1..Len(t) : t[i].idInt = key

Result(t, id, err) == [t |-> t, id |-> id, err |-> err]

-----------------------------------------------------------------------------
(* Entity upserters.  ok = FALSE: the persistence call of this upsert fails *)

upsertEmpreendimento(t, ext, ok) ==
    IF ext.id = 0 THEN Result(t, 0, TRUE)
    ELSE
    LET idIntegracao == Itoa(ext.id)
        existing == FindByKey(t, idIntegracao)
    IN  IF existing # 0
        THEN IF ~ok THEN Result(t, 0, TRUE)
             ELSE Result([t EXCEPT ![existing] =
                            [@ EXCEPT !.titulo = ext.titulo,
                                      !.finalidade = IF ext.finalidade # ""
                                                     THEN ext.finalidade
                                                     ELSE @]],
                         existing, FALSE)
        ELSE IF ~ok \/ KeyTaken(t, idIntegracao) THEN Result(t, 0, TRUE)
             ELSE Result(Append(t, [idInt |-> idIntegracao,
                                    deleted |-> FALSE,
                                    titulo |-> ext.titulo,
                                    finalidade |-> ext.finalidade]),
                         Len(t) + 1, FALSE)

\* upsertPrecoVenda whose lookup never finds the row
upsertPrecoVendaNoLookup(t, ext, ok) ==
    IF ext.id = 0 THEN Result(t, 0, TRUE)
    ELSE IF ~ok \/ KeyTaken(t, Itoa(ext.id)) THEN Result(t, 0, TRUE)
    ELSE Result(Append(t, [idInt |-> Itoa(ext.id), deleted |-> FALSE,
                           preco |-> ext.preco, aceita |-> ext.aceita,
                           ativo |-> ext.ativo]),
                Len(t) + 1, FALSE)

upsertPrecoVenda(t, ext, ok) ==
    IF ext.id = 0 THEN Result(t, 0, TRUE)
    ELSE
    LET idIntegracao == Itoa(ext.id)
        existing == FindByKey(t, idIntegracao)
    IN  IF existing # 0
        THEN IF ~ok THEN Result(t, 0, TRUE)
             ELSE Result([t EXCEPT ![existing] =
                            [@ EXCEPT !.preco = ext.preco,
                                      !.aceita = ext.aceita,
                                      !.ativo = ext.ativo]],
                         existing, FALSE)
        ELSE IF ~ok \/ KeyTaken(t, idIntegracao) THEN Result(t, 0, TRUE)
             ELSE Result(Append(t, [idInt |-> idIntegracao,
                                    deleted |-> FALSE,
                                    preco |-> ext.preco,
                                    aceita |-> ext.aceita,
                                    ativo |-> ext.ativo]),
                         Len(t) + 1, FALSE)

upsertPrecoAluguel(t, ext, ok) ==
    IF ext.id = 0 THEN Result(t, 0, TRUE)
    ELSE
    LET idIntegracao == Itoa(ext.id)
        existing == FindByKey(t, idIntegracao)
    IN  IF existing # 0
        THEN IF ~ok THEN Result(t, 0, TRUE)
             ELSE Result([t EXCEPT ![existing] =
                            [@ EXCEPT !.preco = ext.preco,
                                      !.aceita = ext.aceita,
                                      !.ativo = ext.ativo]],
                         existing, FALSE)
        ELSE IF ~ok \/ KeyTaken(t, idIntegracao) THEN Result(t, 0, TRUE)
             ELSE Result(Append(t, [idInt |-> idIntegracao,
                                    deleted |-> FALSE,
                                    preco |-> ext.preco,
                                    aceita |-> ext.aceita,
                                    ativo |-> ext.ativo]),
                         Len(t) + 1, FALSE)

\* db.Where("nome = ?", nome).First(&org): local id, 0 when not found
FindOrgByNome(t, nome) ==
    FirstOf({i \in 1..Len(t) : t[i].nome = nome /\ ~t[i].deleted})

\* upsertOrganizacao whose lookup never finds the row
upsertOrganizacaoNoLookup(t, extOrg, ok) ==
    IF extOrg.nome = "" \/ ~ok THEN Result(t, 0, TRUE)
    ELSE Result(Append(t, [deleted |-> FALSE, nome |-> extOrg.nome,
                           perfil |-> extOrg.perfil]),
                Len(t) + 1, FALSE)

upsertOrganizacao(t, extOrg, ok) ==
    IF extOrg.nome = "" THEN Result(t, 0, TRUE)
    ELSE
    LET org == FindOrgByNome(t, extOrg.nome)
    IN  IF org # 0
        THEN IF t[org].perfil # extOrg.perfil
             THEN IF ~ok THEN Result(t, 0, TRUE)
                  ELSE Result([t EXCEPT ![org].perfil = extOrg.perfil],
                              org, FALSE)
             ELSE Result(t, org, FALSE)
        ELSE IF ~ok THEN Result(t, 0, TRUE)
             ELSE Result(Append(t, [deleted |-> FALSE,
                                    nome |-> extOrg.nome,
                                    perfil |-> extOrg.perfil]),
                         Len(t) + 1, FALSE)

\* The broker upserter works on two tables: to is organizacoes, tc is
\* corretores_principais.  okOrg / ok: outcome of the organization write and
\* of the broker write.
CorResult(to, tc, id, err) == [id |-> id, err |-> err, to |-> to, tc |-> tc]

\* upsertCorretorPrincipal that goes on without organization when the
\* Organization upsert failed
upsertCorretorPrincipalOrgOptional(to, tc, ext, okOrg, ok) ==
    IF ext.email = "" THEN CorResult(to, tc, 0, TRUE)
    ELSE
    LET o == IF ext.org.nome # ""
             THEN upsertOrganizacao(to, ext.org, okOrg)
             ELSE Result(to, 0, FALSE)
        organizacaoID == o.id
        idIntegracao == Itoa(ext.id)
        corretor == FindByKey(tc, idIntegracao)
        updated == \/ tc[corretor].nome # ext.nome
                   \/ tc[corretor].email # ext.email
                   \/ (organizacaoID # 0 /\ tc[corretor].org # organizacaoID)
    IN  IF corretor # 0
        THEN IF ~updated THEN CorResult(o.t, tc, corretor, FALSE)
             ELSE IF ~ok THEN CorResult(o.t, tc, 0, TRUE)
             ELSE CorResult(o.t,
                            [tc EXCEPT ![corretor] =
                               [@ EXCEPT !.nome = ext.nome,
                                         !.email = ext.email,
                                         !.org = IF organizacaoID # 0
                                                 THEN organizacaoID ELSE @]],
                            corretor, FALSE)
        ELSE IF ~ok \/ KeyTaken(tc, idIntegracao)
             THEN CorResult(o.t, tc, 0, TRUE)
             ELSE CorResult(o.t,
                            Append(tc, [idInt |-> idIntegracao,
                                        deleted |-> FALSE,
                                        nome |-> ext.nome,
                                        org |-> organizacaoID,
                                        email |-> ext.email,
                                        idiomas |-> ext.idiomas]),
                            Len(tc) + 1, FALSE)

upsertCorretorPrincipal(to, tc, ext, okOrg, ok) ==
    IF ext.email = "" THEN CorResult(to, tc, 0, TRUE)
    ELSE
    LET o == IF ext.org.nome # ""
             THEN upsertOrganizacao(to, ext.org, okOrg)
             ELSE Result(to, 0, FALSE)
        organizacaoID == o.id
        idIntegracao == Itoa(ext.id)
        corretor == FindByKey(tc, idIntegracao)
        updated == \/ tc[corretor].nome # ext.nome
                   \/ tc[corretor].email # ext.email
                   \/ (organizacaoID # 0 /\ tc[corretor].org # organizacaoID)
    IN  IF o.err THEN CorResult(o.t, tc, 0, TRUE)
        ELSE IF corretor # 0
        THEN IF ~updated THEN CorResult(o.t, tc, corretor, FALSE)
             ELSE IF ~ok THEN CorResult(o.t, tc, 0, TRUE)
             ELSE CorResult(o.t,
                            [tc EXCEPT ![corretor] =
                               [@ EXCEPT !.nome = ext.nome,
                                         !.email = ext.email,
                                         !.org = IF organizacaoID # 0
                                                 THEN organizacaoID ELSE @]],
                            corretor, FALSE)
        ELSE IF ~ok \/ KeyTaken(tc, idIntegracao)
             THEN CorResult(o.t, tc, 0, TRUE)
             ELSE CorResult(o.t,
                            Append(tc, [idInt |-> idIntegracao,
                                        deleted |-> FALSE,
                                        nome |-> ext.nome,
                                        org |-> organizacaoID,
                                        email |-> ext.email,
                                        idiomas |-> ext.idiomas]),
                            Len(tc) + 1, FALSE)

-----------------------------------------------------------------------------
(* Property service (service.go) and repository (repository.go) *)

\* repository.FindByID: the live row with this primary key, 0 when absent
FindByID(t, id) == IF id \in 1..Len(t) /\ ~t[id].deleted THEN id ELSE 0

\* repository.ExistsByCodigo / ExistsByIdIntegracao: live rows only
ExistsByCodigo(t, codigo) ==
    \E i \in 1..Len(t) : t[i].codigo = codigo /\ ~t[i].deleted
ExistsByIdIntegracao(t, key) ==
    \E i \in 1..Len(t) : t[i].idInt = key /\ ~t[i].deleted

\* a column listed in Omit(...) is left out of the INSERT and stays NULL
OmitZero(v) == IF v = 0 THEN Null ELSE v

\* CreateImovel without the checks and the unique indexes on id_integracao
\* and codigo
CreateImovelNoUnique(t, req, ok, fk) ==
    IF req.objetivo = "ALUGAR" /\ req.pa = 0 THEN Result(t, 0, TRUE)
    ELSE IF req.objetivo = "VENDER" /\ req.pv = 0 THEN Result(t, 0, TRUE)
    ELSE IF ~ok \/ (req.end = 0 /\ fk) THEN Result(t, 0, TRUE)
    ELSE Result(Append(t, [idInt |-> req.idInt, deleted |-> FALSE,
                           titulo |-> req.titulo, codigo |-> req.codigo,
                           objetivo |-> req.objetivo, pa |-> OmitZero(req.pa),
                           pv |-> OmitZero(req.pv), end |-> req.end,
                           emp |-> OmitZero(req.emp), cor |-> OmitZero(req.cor),
                           quartos |-> req.quartos]),
                Len(t) + 1, FALSE)

\* CreateImovel on unique indexes that leave soft-deleted rows out
CreateImovelLiveUnique(t, req, ok, fk) ==
    IF req.objetivo = "ALUGAR" /\ req.pa = 0 THEN Result(t, 0, TRUE)
    ELSE IF req.objetivo = "VENDER" /\ req.pv = 0 THEN Result(t, 0, TRUE)
    ELSE IF ExistsByCodigo(t, req.codigo) THEN Result(t, 0, TRUE)
    ELSE IF ExistsByIdIntegracao(t, req.idInt) THEN Result(t, 0, TRUE)
    ELSE
    LET imovel == [idInt |-> req.idInt,
                   deleted |-> FALSE,
                   titulo |-> req.titulo,
                   codigo |-> req.codigo,
                   objetivo |-> req.objetivo,
                   pa |-> OmitZero(req.pa),
                   pv |-> OmitZero(req.pv),
                   end |-> req.end,
                   emp |-> OmitZero(req.emp),
                   cor |-> OmitZero(req.cor),
                   quartos |-> req.quartos]
        unique == \A i \in 1..Len(t) :
                     t[i].deleted \/ (/\ t[i].idInt # imovel.idInt
                                      /\ t[i].codigo # imovel.codigo)
    IN  IF ~ok \/ ~unique \/ (imovel.end = 0 /\ fk) THEN Result(t, 0, TRUE)
        ELSE Result(Append(t, imovel), Len(t) + 1, FALSE)

\* service.CreateImovel.  fk: the store enforces the foreign key of
\* imoveis.endereco_id, so that a written 0 is rejected.
CreateImovel(t, req, ok, fk) ==
    IF req.objetivo = "ALUGAR" /\ req.pa = 0 THEN Result(t, 0, TRUE)
    ELSE IF req.objetivo = "VENDER" /\ req.pv = 0 THEN Result(t, 0, TRUE)
    ELSE IF ExistsByCodigo(t, req.codigo) THEN Result(t, 0, TRUE)
    ELSE IF ExistsByIdIntegracao(t, req.idInt) THEN Result(t, 0, TRUE)
    ELSE
    LET imovel == [idInt |-> req.idInt,
                   deleted |-> FALSE,
                   titulo |-> req.titulo,
                   codigo |-> req.codigo,
                   objetivo |-> req.objetivo,
                   pa |-> OmitZero(req.pa),
                   pv |-> OmitZero(req.pv),
                   end |-> req.end,
                   emp |-> OmitZero(req.emp),
                   cor |-> OmitZero(req.cor),
                   quartos |-> req.quartos]
        unique == \A i \in 1..Len(t) : /\ t[i].idInt # imovel.idInt
                                       /\ t[i].codigo # imovel.codigo
    IN  IF ~ok \/ ~unique \/ (imovel.end = 0 /\ fk) THEN Result(t, 0, TRUE)
        ELSE Result(Append(t, imovel), Len(t) + 1, FALSE)

\* Updates(struct) of GORM writes the non-zero fields of the struct only
UpdatesField(col, v, zero) == IF v # zero THEN v ELSE col

\* a column read into a Go uint: NULL reads as 0
Scan(col) == IF col = Null THEN 0 ELSE col

\* UpdateImovel that writes every reference of the request, a nil pointer as 0
UpdateImovelOverwrite(t, id, req, ok) ==
    IF id = 0 \/ FindByID(t, id) = 0 \/ ~ok THEN Result(t, 0, TRUE)
    ELSE Result([t EXCEPT ![id] =
                   [@ EXCEPT !.titulo = UpdatesField(@, req.titulo, ""),
                             !.objetivo = UpdatesField(@, req.objetivo, ""),
                             !.quartos = UpdatesField(@, req.quartos, 0),
                             !.emp = Scan(req.emp),
                             !.pv = Scan(req.pv),
                             !.pa = Scan(req.pa),
                             !.cor = Scan(req.cor)]],
                id, FALSE)

\* service.UpdateImovel followed by repository.Update.  A nil pointer of the
\* request is Null.  A new business code must not be taken by a live row.
UpdateImovel(t, id, req, ok) ==
    IF id = 0 \/ FindByID(t, id) = 0 THEN Result(t, 0, TRUE)
    ELSE IF req.codigo # "" /\ req.codigo # t[id].codigo
            /\ ExistsByCodigo(t, req.codigo) THEN Result(t, 0, TRUE)
    ELSE
    LET old == t[id]
        imovel == [titulo |-> IF req.titulo # "" THEN req.titulo
                              ELSE old.titulo,
                   codigo |-> IF req.codigo # "" THEN req.codigo
                              ELSE old.codigo,
                   objetivo |-> IF req.objetivo # "" THEN req.objetivo
                                ELSE old.objetivo,
                   pa |-> IF req.pa # Null THEN req.pa ELSE Scan(old.pa),
                   pv |-> IF req.pv # Null THEN req.pv ELSE Scan(old.pv),
                   end |-> IF req.end # Null THEN req.end ELSE Scan(old.end),
                   emp |-> IF req.emp # Null THEN req.emp ELSE Scan(old.emp),
                   cor |-> IF req.cor # Null THEN req.cor ELSE Scan(old.cor),
                   quartos |-> IF req.quartos >= 0 THEN req.quartos
                               ELSE old.quartos]
    IN  IF ~ok THEN Result(t, 0, TRUE)
        ELSE Result([t EXCEPT ![id] =
                       [@ EXCEPT !.titulo = UpdatesField(@, imovel.titulo, ""),
                                 !.codigo = UpdatesField(@, imovel.codigo, ""),
                                 !.objetivo = UpdatesField(@, imovel.objetivo, ""),
                                 !.quartos = UpdatesField(@, imovel.quartos, 0),
                                 !.end = UpdatesField(@, imovel.end, 0),
                                 !.emp = UpdatesField(@, imovel.emp, 0),
                                 !.pv = UpdatesField(@, imovel.pv, 0),
                                 !.pa = UpdatesField(@, imovel.pa, 0),
                                 !.cor = UpdatesField(@, imovel.cor, 0)]],
                    id, FALSE)

\* service.DeleteImovel followed by repository.Delete: a soft delete
DeleteImovel(t, id, ok) ==
    IF id = 0 \/ FindByID(t, id) = 0 \/ ~ok THEN Result(t, 0, TRUE)
    ELSE Result([t EXCEPT ![id] = [@ EXCEPT !.deleted = TRUE]], id, FALSE)

\* createEndereco that reuses a stored row of the same street
createEnderecoReuse(t, rua, ok) ==
    IF rua = "" \/ ~ok THEN Result(t, 0, TRUE)
    ELSE IF \E i \in 1..Len(t) : t[i].rua = rua
    THEN Result(t, FirstOf({i \in 1..Len(t) : t[i].rua = rua}), FALSE)
    ELSE Result(Append(t, [rua |-> rua]), Len(t) + 1, FALSE)

\* importService.createEndereco
createEndereco(t, rua, ok) ==
    IF rua = "" \/ ~ok THEN Result(t, 0, TRUE)
    ELSE Result(Append(t, [rua |-> rua]), Len(t) + 1, FALSE)

\* service.AttachEndereco followed by repository.UpdateEndereco
AttachEndereco(t, imovelID, enderecoID, ok) ==
    IF imovelID = 0 \/ enderecoID = 0 \/ FindByID(t, imovelID) = 0 \/ ~ok
    THEN Result(t, 0, TRUE)
    ELSE Result([t EXCEPT ![imovelID].end = enderecoID], imovelID, FALSE)

\* DeleteAnexos whose condition matches no row
DeleteAnexosNone(t, imovelID) == t

\* db.Where("imovel_id = ?", imovelID).Delete(&Anexo{}): Anexo carries a
\* gorm.DeletedAt column, the rows are kept and marked deleted
DeleteAnexos(t, imovelID) ==
    [i \in 1..Len(t) |->
        IF t[i].imovel = imovelID /\ ~t[i].deleted
        THEN [t[i] EXCEPT !.deleted = TRUE] ELSE t[i]]

\* service.AddAnexo followed by repository.AddAnexo; i is the loop index
AddAnexo(t, ti, imovelID, i, url, ok) ==
    IF imovelID = 0 \/ FindByID(ti, imovelID) = 0 \/ ~ok
    THEN Result(t, 0, TRUE)
    ELSE Result(Append(t, [deleted |-> FALSE, nome |-> i + 1, imovel |-> imovelID,
                           url |-> url]),
                Len(t) + 1, FALSE)

-----------------------------------------------------------------------------
(* External records (ExternalEmpreendimento, ExternalPrecoVenda,            *)
(* ExternalPrecoAluguel, ExternalCorretor, ExternalOrganizacao).  titulo    *)
(* stands for the fields the code copies unconditionally next to it         *)
(* (descricao, tipo, status, localizacao), aceita for the acceptance flags, *)
(* nome for nome and whatsapp, idiomas for idiomas and bairrosAtuacao.      *)

EmpRecs == [id : RelIds, titulo : {"t1", "t2"}, finalidade : {"", "RES"},
            present : {TRUE}]
PrecoRecs == [id : RelIds, preco : {100, 200}, aceita : BOOLEAN,
              ativo : BOOLEAN, present : {TRUE}]
NoOrg == [nome |-> "", perfil |-> ""]
OrgRecs == {[nome |-> "A", perfil |-> "p1"], [nome |-> "A", perfil |-> "p2"],
            [nome |-> "B", perfil |-> "p1"]}
NoCor == [id |-> 0, nome |-> "", org |-> NoOrg, email |-> "", idiomas |-> <<>>]
\* brokers that carry an e-mail and no external id (ExternalCorretor.ID is
\* the zero value when the provider's JSON has no "id")
CorRecsNoId == [id : {0}, nome : {"n1"}, org : {NoOrg}, email : {"e1", "e2"},
                idiomas : {<<"pt">>}]
\* broker 1 varies in every field, broker 2 in its organization only
CorRecs == [id : {1}, nome : {"n1", "n2"}, org : OrgRecs \cup {NoOrg},
            email : {"e1"}, idiomas : {<<"pt">>, <<"pt", "en">>}]
           \cup [id : {2}, nome : {"n1"}, org : OrgRecs \cup {NoOrg},
                 email : {"e1"}, idiomas : {<<"pt">>}]
           \cup CorRecsNoId
           \cup {NoCor}

NoEmp == [id |-> 0, titulo |-> "", finalidade |-> "", present |-> FALSE]
NoPreco == [id |-> 0, preco |-> 0, aceita |-> FALSE, ativo |-> FALSE,
            present |-> FALSE]

\* ExternalDetailedImovel without content
NoDetail == [id |-> 0, titulo |-> "", codigo |-> "", objetivo |-> "",
             pa |-> NoPreco, pv |-> NoPreco, emp |-> NoEmp, cor |-> NoCor,
             quartos |-> 0, rua |-> "", imgs |-> <<>>]

-----------------------------------------------------------------------------
(* State after construction *)

IdleBatch == [org |-> 0, updated |-> 0, pa |-> 0, pv |-> 0,
              emp |-> 0, cor |-> 0,
              imovelID |-> 0, pc |-> "idle", list |-> <<>>, idx |-> 0,
              det |-> NoDetail, isUpdate |-> FALSE,
              endID |-> 0, k |-> 0,
              found |-> 0, created |-> 0, failed |-> 0,
              result |-> "none", outcomes |-> <<>>, nofetch |-> 0]

\* op: the operation called, key: the external id passed, pre: the local id
\* its correlation key had before the call (0: none), id / err: what it returned
\* ok: no persistence call failed during it, org: the organization name passed
NoRet == [key |-> 0, id |-> 0, err |-> FALSE, ok |-> TRUE, org |-> "",
          op |-> "none", pre |-> 0]

InitStore ==
    /\ imoveis = <<>>
    /\ enderecos = <<>>
    /\ empreendimentos = <<>>
    /\ precoVendas = <<>>
    /\ precoAlugueis = <<>>
    /\ corretores = <<>>
    /\ organizacoes = <<>>
    /\ anexos = <<>>

\* the Property rows by external id: <<correlation key, local id>>
Rows(t) == {<<t[i].idInt, i>> : i \in 1..Len(t)}

\* runs: batches started, changed: the provider's data changed after the first
\* batch started, err: some fetch or persistence call of a batch returned an
\* error, rows1: Rows(imoveis) when the first batch finished
InitHist == [err |-> FALSE, runs |-> 0, changed |-> FALSE, rows1 |-> {}]

-----------------------------------------------------------------------------
(* ImportPublishedProperties and upsertImovelAndRelationships, one action   *)
(* per call of the external API or of the store.  r is the invocation; the  *)
(* set arguments are the outcomes the environment may produce at that call  *)
(* (TRUE: the call succeeds).                                               *)

\* continue with the next element of the range loop, or return
Advance(b) ==
    LET c == [b EXCEPT !.det = NoDetail, !.isUpdate = FALSE, !.imovelID = 0,
                       !.emp = 0, !.pv = 0, !.pa = 0, !.cor = 0,
                       !.endID = 0, !.k = 0]
    IN  IF b.idx < Len(b.list)
        THEN [c EXCEPT !.pc = "detail", !.idx = @ + 1]
        ELSE [c EXCEPT !.pc = "done", !.result = "completed"]

\* ItemFailed that forgets to count
ItemFailedUncounted(b) == Advance(b)

\* errorCount++ ; continue
ItemFailed(b) ==
    Advance([b EXCEPT !.failed = @ + 1, !.outcomes = Append(@, "failed")])

\* ItemSucceeded that counts every success as a creation
ItemSucceededAllCreated(b) ==
    Advance([b EXCEPT !.created = @ + 1, !.outcomes = Append(@, "created")])

\* updateCount++ or successCount++
ItemSucceeded(b) ==
    IF b.isUpdate
    THEN Advance([b EXCEPT !.updated = @ + 1,
                           !.outcomes = Append(@, "updated")])
    ELSE Advance([b EXCEPT !.created = @ + 1,
                           !.outcomes = Append(@, "created")])

\* the new locals of invocation r, and what the step adds to the observations
Step(r, b, err) ==
    /\ rs' = [rs EXCEPT ![r] = b]
    /\ hist' = [hist EXCEPT
                  !.err = @ \/ err,
                  !.rows1 = IF b.pc = "done" /\ hist.runs = 1
                            THEN Rows(imoveis') ELSE @]

StartBatch(r) ==
    /\ rs[r].pc \in {"idle", "done"}
    /\ hist.runs < MaxRuns
    /\ rs' = [rs EXCEPT ![r] = [IdleBatch EXCEPT !.pc = "list"]]
    /\ hist' = [hist EXCEPT !.runs = @ + 1]
    /\ UNCHANGED <<tables, upstream, published, ret>>

\* FetchList without the emptiness check
FetchListNoEmptyCheck(r, Oks) ==
    /\ rs[r].pc = "list"
    /\ UNCHANGED <<tables, upstream, published, ret>>
    /\ \E ok \in Oks :
         LET properties == IF ok THEN published ELSE <<>>
             b == [rs[r] EXCEPT !.list = properties]
         IN  IF ~ok
             THEN Step(r, [b EXCEPT !.pc = "done", !.result = "fatal"], TRUE)
             ELSE Step(r, Advance(b), FALSE)

\* fetchPublishedList and the emptiness check
FetchList(r, Oks) ==
    /\ rs[r].pc = "list"
    /\ UNCHANGED <<tables, upstream, published, ret>>
    /\ \E ok \in Oks :
         LET properties == IF ok THEN published ELSE <<>>
             b == [rs[r] EXCEPT !.list = properties]
         IN  IF ~ok \/ Len(properties) = 0
             THEN Step(r, [b EXCEPT !.pc = "done", !.result = "fatal"], TRUE)
             ELSE Step(r, [b EXCEPT !.pc = "detail", !.idx = 1], FALSE)

\* OnDetailError that returns the error instead of continuing
OnDetailErrorAbort(b) == [b EXCEPT !.pc = "done", !.result = "fatal"]

\* the batch's reaction to a failed detail fetch: errorCount++ ; continue
OnDetailError(b) == ItemFailed(b)

\* ImportPropertyDetails; nofetch counts the detail fetches that failed
FetchDetail(r, Oks) ==
    /\ rs[r].pc = "detail"
    /\ UNCHANGED <<tables, upstream, published, ret>>
    /\ \E ok \in Oks :
         IF ~ok
         THEN Step(r, OnDetailError([rs[r] EXCEPT !.nofetch = @ + 1]), TRUE)
         ELSE Step(r, [rs[r] EXCEPT !.pc = "lookup",
                                    !.det = upstream[rs[r].list[rs[r].idx]]],
                   FALSE)

\* Lookup that never finds the row
LookupMiss(r) ==
    /\ rs[r].pc = "lookup"
    /\ UNCHANGED <<tables, upstream, published, ret>>
    /\ Step(r, [rs[r] EXCEPT !.pc = "emp", !.isUpdate = FALSE,
                             !.imovelID = 0], FALSE)

\* GetImovelByIdIntegracao
Lookup(r) ==
    /\ rs[r].pc = "lookup"
    /\ UNCHANGED <<tables, upstream, published, ret>>
    /\ LET existingImovel == FindByKey(imoveis, Itoa(rs[r].det.id))
       IN  Step(r, [rs[r] EXCEPT !.pc = "emp",
                                 !.isUpdate = existingImovel # 0,
                                 !.imovelID = existingImovel], FALSE)

RelEmpreendimento(r, Oks) ==
    /\ rs[r].pc = "emp"
    /\ \E ok \in Oks :
         LET ext == rs[r].det.emp
             u == IF ext.present
                  THEN upsertEmpreendimento(empreendimentos, ext, ok)
                  ELSE Result(empreendimentos, 0, FALSE)
         IN  /\ empreendimentos' = u.t
             /\ Step(r, [rs[r] EXCEPT !.pc = "pv",
                                      !.emp = IF u.err THEN 0 ELSE u.id],
                     u.err)
    /\ UNCHANGED <<imoveis, enderecos, precoVendas, precoAlugueis, corretores,
                   organizacoes, anexos, upstream, published, ret>>

\* RelPrecoVenda that upserts every price present, active or not
RelPrecoVendaUngated(r, Oks) ==
    /\ rs[r].pc = "pv"
    /\ \E ok \in Oks :
         LET ext == rs[r].det.pv
             u == IF ext.present
                  THEN upsertPrecoVenda(precoVendas, ext, ok)
                  ELSE Result(precoVendas, 0, FALSE)
         IN  /\ precoVendas' = u.t
             /\ Step(r, [rs[r] EXCEPT !.pc = "pa",
                                      !.pv = IF u.err THEN 0 ELSE u.id],
                     u.err)
    /\ UNCHANGED <<imoveis, enderecos, empreendimentos, precoAlugueis,
                   corretores, organizacoes, anexos, upstream, published, ret>>

\* the SalePrice step: upserted only when present and active
RelPrecoVenda(r, Oks) ==
    /\ rs[r].pc = "pv"
    /\ \E ok \in Oks :
         LET ext == rs[r].det.pv
             u == IF ext.present /\ ext.ativo
                  THEN upsertPrecoVenda(precoVendas, ext, ok)
                  ELSE Result(precoVendas, 0, FALSE)
         IN  /\ precoVendas' = u.t
             /\ Step(r, [rs[r] EXCEPT !.pc = "pa",
                                      !.pv = IF u.err THEN 0 ELSE u.id],
                     u.err)
    /\ UNCHANGED <<imoveis, enderecos, empreendimentos, precoAlugueis,
                   corretores, organizacoes, anexos, upstream, published, ret>>

RelPrecoAluguel(r, Oks) ==
    /\ rs[r].pc = "pa"
    /\ \E ok \in Oks :
         LET ext == rs[r].det.pa
             u == IF ext.present /\ ext.ativo
                  THEN upsertPrecoAluguel(precoAlugueis, ext, ok)
                  ELSE Result(precoAlugueis, 0, FALSE)
         IN  /\ precoAlugueis' = u.t
             /\ Step(r, [rs[r] EXCEPT !.pc = "cor",
                                      !.pa = IF u.err THEN 0 ELSE u.id],
                     u.err)
    /\ UNCHANGED <<imoveis, enderecos, empreendimentos, precoVendas,
                   corretores, organizacoes, anexos, upstream, published, ret>>

RelCorretorPrincipal(r, Faults) ==
    /\ rs[r].pc = "cor"
    /\ \E fault \in Faults :
         LET ext == rs[r].det.cor
             u == IF ext.email # ""
                  THEN upsertCorretorPrincipal(organizacoes, corretores, ext,
                                               fault # "org", fault # "cor")
                  ELSE CorResult(organizacoes, corretores, 0, FALSE)
         IN  /\ organizacoes' = u.to
             /\ corretores' = u.tc
             /\ Step(r, [rs[r] EXCEPT
                           !.pc = IF rs[r].isUpdate THEN "update"
                                  ELSE "endereco",
                           !.cor = IF u.err THEN 0 ELSE u.id],
                     u.err)
    /\ UNCHANGED <<imoveis, enderecos, empreendimentos, precoVendas,
                   precoAlugueis, anexos, upstream, published, ret>>

\* a nil pointer of UpdateImovelRequest
Ptr(id) == IF id # 0 THEN id ELSE Null

\* UpdateRequest that also sets the Codigo of the request
UpdateRequestWithCodigo(b) ==
    [titulo |-> b.det.titulo, codigo |-> b.det.codigo,
     objetivo |-> b.det.objetivo, pa |-> Ptr(b.pa),
     pv |-> Ptr(b.pv), end |-> Null, emp |-> Ptr(b.emp),
     cor |-> Ptr(b.cor), quartos |-> b.det.quartos]

\* the UpdateImovelRequest of the update branch; its Codigo is not set
UpdateRequest(b) ==
    [titulo |-> b.det.titulo, codigo |-> "",
     objetivo |-> b.det.objetivo, pa |-> Ptr(b.pa),
     pv |-> Ptr(b.pv), end |-> Null, emp |-> Ptr(b.emp),
     cor |-> Ptr(b.cor), quartos |-> b.det.quartos]

\* update branch: service.UpdateImovel
UpdateProperty(r, Oks) ==
    /\ rs[r].pc = "update"
    /\ UNCHANGED <<enderecos, empreendimentos, precoVendas, precoAlugueis,
                   corretores, organizacoes, anexos, upstream, published, ret>>
    /\ \E ok \in Oks :
         LET u == UpdateImovel(imoveis, rs[r].imovelID, UpdateRequest(rs[r]),
                               ok)
         IN  /\ imoveis' = u.t
             /\ IF u.err THEN Step(r, ItemFailed(rs[r]), TRUE)
                ELSE Step(r, [rs[r] EXCEPT !.pc = "attach"], FALSE)

\* update branch: upsertEndereco (createEndereco, then AttachEndereco)
UpdateEndereco(r, Faults) ==
    /\ rs[r].pc = "attach"
    /\ UNCHANGED <<empreendimentos, precoVendas, precoAlugueis, corretores,
                   organizacoes, anexos, upstream, published, ret>>
    /\ \E fault \in Faults :
         LET rua == rs[r].det.rua
             c == IF rua # ""
                  THEN createEndereco(enderecos, rua, fault # "create")
                  ELSE Result(enderecos, 0, FALSE)
             a == IF rua # "" /\ ~c.err
                  THEN AttachEndereco(imoveis, rs[r].imovelID, c.id,
                                      fault # "attach")
                  ELSE Result(imoveis, 0, FALSE)
         IN  /\ enderecos' = c.t
             /\ imoveis' = a.t
             /\ Step(r, [rs[r] EXCEPT !.pc = "syncDel",
                                      !.endID = IF c.err THEN 0 ELSE c.id],
                     c.err \/ a.err)

\* CreateAddress that goes on without address when createEndereco failed
CreateAddressNonFatal(r, Oks) ==
    /\ rs[r].pc = "endereco"
    /\ UNCHANGED <<imoveis, empreendimentos, precoVendas, precoAlugueis,
                   corretores, organizacoes, anexos, upstream, published, ret>>
    /\ \E ok \in Oks :
         LET rua == rs[r].det.rua
             c == IF rua # "" THEN createEndereco(enderecos, rua, ok)
                  ELSE Result(enderecos, 0, FALSE)
         IN  /\ enderecos' = c.t
             /\ Step(r, [rs[r] EXCEPT !.pc = "create",
                                      !.endID = IF c.err THEN 0 ELSE c.id],
                     c.err)

\* create branch: createEndereco
CreateAddress(r, Oks) ==
    /\ rs[r].pc = "endereco"
    /\ UNCHANGED <<imoveis, empreendimentos, precoVendas, precoAlugueis,
                   corretores, organizacoes, anexos, upstream, published, ret>>
    /\ \E ok \in Oks :
         LET rua == rs[r].det.rua
             c == IF rua # "" THEN createEndereco(enderecos, rua, ok)
                  ELSE Result(enderecos, 0, FALSE)
         IN  /\ enderecos' = c.t
             /\ IF c.err THEN Step(r, ItemFailed(rs[r]), TRUE)
                ELSE Step(r, [rs[r] EXCEPT !.pc = "create", !.endID = c.id],
                          FALSE)

\* transformExternalToCreateRequest
transformExternalToCreateRequest(ext, endID, empID, pvID, paID, corID) ==
    [idInt |-> Itoa(ext.id), titulo |-> ext.titulo, codigo |-> ext.codigo,
     objetivo |-> ext.objetivo, pa |-> paID, pv |-> pvID, end |-> endID,
     emp |-> empID, cor |-> corID, quartos |-> ext.quartos]

\* CreateProperty that synchronizes the attachments whatever the create did
CreatePropertyThenSync(r, Oks, Fks) ==
    /\ rs[r].pc = "create"
    /\ UNCHANGED <<enderecos, empreendimentos, precoVendas, precoAlugueis,
                   corretores, organizacoes, anexos, upstream, published, ret>>
    /\ \E ok \in Oks, fk \in Fks :
         LET b == rs[r]
             createReq == transformExternalToCreateRequest(
                              b.det, b.endID, b.emp, b.pv, b.pa, b.cor)
             u == CreateImovel(imoveis, createReq, ok, fk)
         IN  /\ imoveis' = u.t
             /\ Step(r, [b EXCEPT !.pc = "syncDel", !.imovelID = u.id], u.err)

\* create branch: service.CreateImovel
CreateProperty(r, Oks, Fks) ==
    /\ rs[r].pc = "create"
    /\ UNCHANGED <<enderecos, empreendimentos, precoVendas, precoAlugueis,
                   corretores, organizacoes, anexos, upstream, published, ret>>
    /\ \E ok \in Oks, fk \in Fks :
         LET b == rs[r]
             createReq == transformExternalToCreateRequest(
                              b.det, b.endID, b.emp, b.pv, b.pa, b.cor)
             u == CreateImovel(imoveis, createReq, ok, fk)
         IN  /\ imoveis' = u.t
             /\ IF u.err THEN Step(r, ItemFailed(b), TRUE)
                ELSE Step(r, [b EXCEPT !.pc = "syncDel", !.imovelID = u.id],
                          FALSE)

\* SyncDelete whose delete has no condition on the owner
SyncDeleteAll(r, Oks) ==
    /\ rs[r].pc = "syncDel"
    /\ UNCHANGED <<imoveis, enderecos, empreendimentos, precoVendas,
                   precoAlugueis, corretores, organizacoes, upstream,
                   published, ret>>
    /\ \E ok \in Oks :
         IF ~ok
         THEN /\ anexos' = anexos
              /\ Step(r, ItemSucceeded(rs[r]), TRUE)
         ELSE /\ anexos' = [i \in 1..Len(anexos) |->
                               [anexos[i] EXCEPT !.deleted = TRUE]]
              /\ IF Len(rs[r].det.imgs) = 0
                 THEN Step(r, ItemSucceeded(rs[r]), FALSE)
                 ELSE Step(r, [rs[r] EXCEPT !.pc = "syncIns", !.k = 0], FALSE)

\* syncAnexosFromImages, step 1: delete the property's attachments
SyncDelete(r, Oks) ==
    /\ rs[r].pc = "syncDel"
    /\ UNCHANGED <<imoveis, enderecos, empreendimentos, precoVendas,
                   precoAlugueis, corretores, organizacoes, upstream,
                   published, ret>>
    /\ \E ok \in Oks :
         IF ~ok
         THEN /\ anexos' = anexos
              /\ Step(r, ItemSucceeded(rs[r]), TRUE)
         ELSE /\ anexos' = DeleteAnexos(anexos, rs[r].imovelID)
              /\ IF Len(rs[r].det.imgs) = 0
                 THEN Step(r, ItemSucceeded(rs[r]), FALSE)
                 ELSE Step(r, [rs[r] EXCEPT !.pc = "syncIns", !.k = 0], FALSE)

\* SyncInsert that goes on with the next image after a failed AddAnexo
SyncInsertSkip(r, Oks) ==
    /\ rs[r].pc = "syncIns"
    /\ UNCHANGED <<imoveis, enderecos, empreendimentos, precoVendas,
                   precoAlugueis, corretores, organizacoes, upstream,
                   published, ret>>
    /\ \E ok \in Oks :
         LET b == rs[r]
             a == AddAnexo(anexos, imoveis, b.imovelID, b.k,
                           b.det.imgs[b.k + 1], ok)
         IN  /\ anexos' = a.t
             /\ IF b.k + 1 = Len(b.det.imgs)
                THEN Step(r, ItemSucceeded(b), a.err)
                ELSE Step(r, [b EXCEPT !.k = @ + 1], a.err)

\* SyncInsert whose failure fails the item
SyncInsertFatal(r, Oks) ==
    /\ rs[r].pc = "syncIns"
    /\ UNCHANGED <<imoveis, enderecos, empreendimentos, precoVendas,
                   precoAlugueis, corretores, organizacoes, upstream,
                   published, ret>>
    /\ \E ok \in Oks :
         LET b == rs[r]
             a == AddAnexo(anexos, imoveis, b.imovelID, b.k,
                           b.det.imgs[b.k + 1], ok)
         IN  /\ anexos' = a.t
             /\ IF a.err THEN Step(r, ItemFailed(b), TRUE)
                ELSE IF b.k + 1 = Len(b.det.imgs)
                THEN Step(r, ItemSucceeded(b), FALSE)
                ELSE Step(r, [b EXCEPT !.k = @ + 1], FALSE)

\* syncAnexosFromImages, step 2: one AddAnexo of the range loop (k: index i)
SyncInsert(r, Oks) ==
    /\ rs[r].pc = "syncIns"
    /\ UNCHANGED <<imoveis, enderecos, empreendimentos, precoVendas,
                   precoAlugueis, corretores, organizacoes, upstream,
                   published, ret>>
    /\ \E ok \in Oks :
         LET b == rs[r]
             a == AddAnexo(anexos, imoveis, b.imovelID, b.k,
                           b.det.imgs[b.k + 1], ok)
         IN  /\ anexos' = a.t
             /\ IF a.err \/ b.k + 1 = Len(b.det.imgs)
                THEN Step(r, ItemSucceeded(b), a.err)
                ELSE Step(r, [b EXCEPT !.k = @ + 1], FALSE)

\* the provider changes its data between two batches, once in a history
ProviderUpdate(Details, Lists) ==
    /\ \A r \in Runners : rs[r].pc \in {"idle", "done"}
    /\ hist.runs \in 1..(MaxRuns - 1)
    /\ ~hist.changed
    /\ \E u \in [ExtIds -> UNION {Details[e] : e \in ExtIds}], l \in Lists :
         /\ \A e \in ExtIds : u[e] \in Details[e]
         /\ <<u, l>> # <<upstream, published>>
         /\ upstream' = u
         /\ published' = l
    /\ hist' = [hist EXCEPT !.changed = TRUE]
    /\ UNCHANGED <<tables, rs, ret>>

-----------------------------------------------------------------------------
(* What a finished batch returns, and the HTTP handler on top of it *)

\* a Go error value: its message and the counts formatted into it
Errorf(msg, updated, created, failed) ==
    [updated |-> updated, created |-> created, failed |-> failed, msg |-> msg]

NilError == Errorf("nil", 0, 0, 0)

\* ReturnedError that returns nil when no item failed
ReturnedErrorNilOnSuccess(b) ==
    IF b.result = "fatal" THEN Errorf("failed to fetch properties", 0, 0, 0)
    ELSE IF b.failed = 0 THEN NilError
    ELSE Errorf("import completed", b.updated, b.created, b.failed)

\* the error value ImportPublishedProperties returns: the fetch error, the
\* "no properties found" error, or fmt.Errorf("import completed: %d created,
\* %d updated, %d failed", successCount, updateCount, errorCount)
ReturnedError(b) ==
    IF b.result = "fatal" THEN Errorf("failed to fetch properties", 0, 0, 0)
    ELSE Errorf("import completed", b.updated, b.created, b.failed)

\* Handler.ImportProperties: the response for a finished batch
ImportProperties(b) ==
    IF ReturnedError(b) # NilError
    THEN [status |-> 500, success |-> FALSE]
    ELSE [status |-> 200, success |-> TRUE]

-----------------------------------------------------------------------------
(* Provider data *)

Cods == <<"AP1", "AP2", "AP3">>   \* the business code of each external id

ActivePreco(id) == [id |-> id, preco |-> 100, aceita |-> TRUE,
                    ativo |-> TRUE, present |-> TRUE]

\* published lists of at most n entries
Lists(n) == UNION {[1..k -> ExtIds] : k \in 0..n}

\* a development and a broker with its organization
Emp1 == [id |-> 1, titulo |-> "t1", finalidade |-> "RES", present |-> TRUE]
Cor1 == [id |-> 1, nome |-> "n1", org |-> [nome |-> "A", perfil |-> "p1"], email |-> "e1",
         idiomas |-> <<"pt">>]

\* Details of the batch specification: a property for sale with an address
\* and one image; property 1 with or without an active sale price, property
\* 2 with a development, both prices and a broker
BatchDetails(e) ==
    {[NoDetail EXCEPT !.id = e, !.codigo = Cods[e], !.objetivo = "VENDER",
                      !.titulo = "T1", !.rua = "r1", !.pv = pv,
                      !.emp = IF e = 1 THEN NoEmp ELSE Emp1,
                      !.pa = IF e = 1 THEN NoPreco ELSE ActivePreco(e),
                      !.cor = IF e = 1 THEN NoCor ELSE Cor1,
                      !.imgs = <<"u1">>] :
        pv \in IF e = 1 THEN {NoPreco, ActivePreco(e)} ELSE {ActivePreco(e)}}

BatchLists == Lists(MaxList)

-----------------------------------------------------------------------------
(* Specification Spec: batches of ImportPublishedProperties run one after   *)
(* the other against a provider whose data may change between two of them. *)
(* The list fetch, a detail fetch and the write of a Property row may fail. *)

Init ==
    /\ InitStore
    /\ upstream \in [ExtIds -> UNION {BatchDetails(e) : e \in ExtIds}]
    /\ \A e \in ExtIds : upstream[e] \in BatchDetails(e)
    /\ published \in BatchLists
    /\ rs = [r \in Runners |-> IdleBatch]
    /\ hist = InitHist
    /\ ret = NoRet

Next ==
    \/ StartBatch(1)
    \/ FetchList(1, BOOLEAN)
    \/ FetchDetail(1, BOOLEAN)
    \/ Lookup(1)
    \/ RelEmpreendimento(1, {TRUE})
    \/ RelPrecoVenda(1, {TRUE})
    \/ RelPrecoAluguel(1, {TRUE})
    \/ RelCorretorPrincipal(1, {"none"})
    \/ UpdateProperty(1, BOOLEAN)
    \/ UpdateEndereco(1, {"none"})
    \/ CreateAddress(1, {TRUE})
    \/ CreateProperty(1, BOOLEAN, BOOLEAN)
    \/ SyncDelete(1, {TRUE})
    \/ SyncInsert(1, {TRUE})
    \/ ProviderUpdate([e \in ExtIds |-> BatchDetails(e)], BatchLists)

Spec == Init /\ [][Next]_vars

-----------------------------------------------------------------------------
(* Specification SpecRec: one published property reconciled batch after     *)
(* batch, its detail carrying any combination of address, development,      *)
(* prices and broker; every persistence call of the reconciliation may      *)
(* fail.                                                                    *)

RecDetail(obj, rua, emp, pv, pa, cor) ==
    [NoDetail EXCEPT !.id = 1, !.codigo = Cods[1], !.objetivo = obj,
                     !.titulo = "T1", !.rua = rua, !.emp = emp, !.pv = pv,
                     !.pa = pa, !.cor = cor, !.imgs = <<"u1">>]

RecDetails(e) ==
    IF e # 1 THEN {[NoDetail EXCEPT !.id = e, !.codigo = Cods[e]]}
    ELSE {RecDetail("VENDER", "r1", Emp1, ActivePreco(1), NoPreco, Cor1),
          RecDetail("VENDER", "", NoEmp, ActivePreco(1), NoPreco, NoCor),
          RecDetail("ALUGAR", "r1", NoEmp, NoPreco, ActivePreco(1), NoCor),
          RecDetail("VENDER", "", NoEmp, NoPreco, NoPreco, NoCor),
          RecDetail("ALUGAR", "", Emp1, ActivePreco(1), ActivePreco(1), Cor1)}

InitRec ==
    /\ InitStore
    /\ upstream \in [ExtIds -> UNION {RecDetails(e) : e \in ExtIds}]
    /\ \A e \in ExtIds : upstream[e] \in RecDetails(e)
    /\ published = <<1>>
    /\ rs = [r \in Runners |-> IdleBatch]
    /\ hist = InitHist
    /\ ret = NoRet

NextRec ==
    \/ StartBatch(1)
    \/ FetchList(1, {TRUE})
    \/ FetchDetail(1, {TRUE})
    \/ Lookup(1)
    \/ RelEmpreendimento(1, BOOLEAN)
    \/ RelPrecoVenda(1, BOOLEAN)
    \/ RelPrecoAluguel(1, BOOLEAN)
    \/ RelCorretorPrincipal(1, {"org", "cor", "none"})
    \/ UpdateProperty(1, BOOLEAN)
    \/ UpdateEndereco(1, {"create", "attach", "none"})
    \/ CreateAddress(1, BOOLEAN)
    \/ CreateProperty(1, BOOLEAN, BOOLEAN)
    \/ SyncDelete(1, BOOLEAN)
    \/ SyncInsert(1, BOOLEAN)
    \/ ProviderUpdate([e \in ExtIds |-> RecDetails(e)], {<<1>>})

SpecRec == InitRec /\ [][NextRec]_vars

-----------------------------------------------------------------------------
(* Specification SpecSync: syncAnexosFromImages called again and again on   *)
(* the two properties of a store that imported them, with any image list;   *)
(* the delete and every insert may fail.                                    *)

ImgLists == UNION {[1..n -> Urls] : n \in 0..MaxImgs}

SyncDetail(e) == [NoDetail EXCEPT !.id = e, !.codigo = Cods[e],
                                  !.objetivo = "VENDER", !.titulo = "T1",
                                  !.rua = "r1", !.pv = ActivePreco(e)]

\* the Property rows after the import of external ids 1..n
RECURSIVE Imported(_)
Imported(n) ==
    IF n = 0 THEN <<>>
    ELSE CreateImovel(Imported(n - 1),
                      transformExternalToCreateRequest(SyncDetail(n), n, 0, n,
                                                       0, 0),
                      TRUE, FALSE).t

\* the SalePrice rows after the import of external ids 1..n
RECURSIVE ImportedPrecos(_)
ImportedPrecos(n) ==
    IF n = 0 THEN <<>>
    ELSE upsertPrecoVenda(ImportedPrecos(n - 1), ActivePreco(n), TRUE).t

InitSync ==
    /\ imoveis = Imported(2)
    /\ enderecos = <<[rua |-> "r1"], [rua |-> "r1"]>>
    /\ precoVendas = ImportedPrecos(2)
    /\ empreendimentos = <<>>
    /\ precoAlugueis = <<>>
    /\ corretores = <<>>
    /\ organizacoes = <<>>
    /\ anexos = <<>>
    /\ upstream = [e \in ExtIds |-> SyncDetail(e)]
    /\ published = <<1, 2>>
    /\ rs = [r \in Runners |-> IdleBatch]
    /\ hist = InitHist
    /\ ret = NoRet

\* the call syncAnexosFromImages(ctx, imovelID, imageURLs)
CallSync(r) ==
    /\ rs[r].pc \in {"idle", "done"}
    /\ hist.runs < MaxSyncs
    /\ \E p \in 1..Len(imoveis), L \in ImgLists :
         rs' = [rs EXCEPT ![r] = [IdleBatch EXCEPT
                                    !.pc = "syncDel", !.isUpdate = TRUE,
                                    !.imovelID = p,
                                    !.det = [SyncDetail(p) EXCEPT !.imgs = L]]]
    /\ hist' = [hist EXCEPT !.runs = @ + 1, !.err = FALSE]
    /\ ret' = [NoRet EXCEPT !.op = "sync", !.pre = Len(anexos)]
    /\ UNCHANGED <<tables, upstream, published>>

NextSync ==
    \/ CallSync(1)
    \/ SyncDelete(1, BOOLEAN)
    \/ SyncInsert(1, BOOLEAN)

SpecSync == InitSync /\ [][NextSync]_vars

-----------------------------------------------------------------------------
(* Specification SpecHeal: syncAnexosFromImages called again and again on   *)
(* one property, as its successive imports do; the delete and every insert  *)
(* may fail.  ret remembers how the call before ended.                      *)

\* the call syncAnexosFromImages(ctx, 1, imageURLs) of the next import of
\* property 1.  ret.err: the call before returned an error, ret.id: the
\* number of attachments that call had inserted
Resync(r) ==
    /\ rs[r].pc \in {"idle", "done"}
    /\ hist.runs < MaxHeals
    /\ \E L \in ImgLists :
         rs' = [rs EXCEPT ![r] = [IdleBatch EXCEPT
                                    !.pc = "syncDel", !.isUpdate = TRUE,
                                    !.imovelID = 1,
                                    !.det = [SyncDetail(1) EXCEPT !.imgs = L]]]
    /\ hist' = [hist EXCEPT !.runs = @ + 1, !.err = FALSE]
    /\ ret' = [NoRet EXCEPT !.op = "sync", !.pre = Len(anexos),
                            !.err = hist.err,
                            !.id = Len(anexos) - ret.pre]
    /\ UNCHANGED <<tables, upstream, published>>

NextHeal ==
    \/ Resync(1)
    \/ SyncDelete(1, BOOLEAN)
    \/ SyncInsert(1, BOOLEAN)

SpecHeal == InitSync /\ [][NextHeal]_vars

-----------------------------------------------------------------------------
(* Specification SpecConc: two invocations of ImportPublishedProperties     *)
(* (two requests of the handler, or the handler and the CLI job) run over   *)
(* the same published list at the same time.  Every database call is one    *)
(* step, so the lookup of an upserter and its write are separate steps for  *)
(* the SalePrice, the Organization and the Broker of the details used here; *)
(* found holds what the lookup returned, org the organization id resolved.  *)
(* CreateImovel stays one step: its two existence checks read rows that are *)
(* never removed, so a check that fails earlier fails at the insert too,    *)
(* and the insert itself is refused by the unique indexes.                  *)

\* the write half of an upserter on a uniquely indexed key: found is what
\* its First returned, u the upsert on the table as it is now
StaleWrite(t, key, found, u) ==
    IF found = 0 /\ KeyTaken(t, key) THEN Result(t, 0, TRUE) ELSE u

\* upsertOrganizacao after its First returned org (0: record not found)
writeOrganizacao(t, extOrg, org, ok) ==
    IF org # 0
    THEN IF t[org].perfil # extOrg.perfil
         THEN IF ~ok THEN Result(t, 0, TRUE)
              ELSE Result([t EXCEPT ![org].perfil = extOrg.perfil], org, FALSE)
         ELSE Result(t, org, FALSE)
    ELSE IF ~ok THEN Result(t, 0, TRUE)
         ELSE Result(Append(t, [deleted |-> FALSE,
                                nome |-> extOrg.nome,
                                perfil |-> extOrg.perfil]),
                     Len(t) + 1, FALSE)

\* upsertCorretorPrincipal after the organization was resolved and its First
\* returned corretor (0: record not found)
writeCorretor(tc, ext, organizacaoID, corretor, ok) ==
    LET idIntegracao == Itoa(ext.id)
        updated == \/ tc[corretor].nome # ext.nome
                   \/ tc[corretor].email # ext.email
                   \/ (organizacaoID # 0 /\ tc[corretor].org # organizacaoID)
    IN  IF corretor # 0
        THEN IF ~updated THEN Result(tc, corretor, FALSE)
             ELSE IF ~ok THEN Result(tc, 0, TRUE)
             ELSE Result([tc EXCEPT ![corretor] =
                            [@ EXCEPT !.nome = ext.nome,
                                      !.email = ext.email,
                                      !.org = IF organizacaoID # 0
                                              THEN organizacaoID ELSE @]],
                         corretor, FALSE)
        ELSE IF ~ok \/ KeyTaken(tc, idIntegracao) THEN Result(tc, 0, TRUE)
             ELSE Result(Append(tc, [idInt |-> idIntegracao,
                                     deleted |-> FALSE,
                                     nome |-> ext.nome,
                                     org |-> organizacaoID,
                                     email |-> ext.email,
                                     idiomas |-> ext.idiomas]),
                         Len(tc) + 1, FALSE)

\* the step after the related entities
WritePc(b) == IF b.isUpdate THEN "update" ELSE "endereco"

\* upsertPrecoVenda: the First
ConcPvFind(r) ==
    /\ rs[r].pc = "pv"
    /\ UNCHANGED <<tables, upstream, published, ret>>
    /\ LET ext == rs[r].det.pv
       IN  Step(r, [rs[r] EXCEPT
                      !.pc = "pvW",
                      !.found = IF ext.present /\ ext.ativo /\ ext.id # 0
                                THEN FindByKey(precoVendas, Itoa(ext.id))
                                ELSE 0],
                FALSE)

\* upsertPrecoVenda: the Save or the Create
ConcPvWrite(r) ==
    /\ rs[r].pc = "pvW"
    /\ UNCHANGED <<imoveis, enderecos, empreendimentos, precoAlugueis,
                   corretores, organizacoes, anexos, upstream, published, ret>>
    /\ LET ext == rs[r].det.pv
           u == IF ext.present /\ ext.ativo
                THEN StaleWrite(precoVendas, Itoa(ext.id), rs[r].found,
                                upsertPrecoVenda(precoVendas, ext, TRUE))
                ELSE Result(precoVendas, 0, FALSE)
       IN  /\ precoVendas' = u.t
           /\ Step(r, [rs[r] EXCEPT !.pc = "pa",
                                    !.pv = IF u.err THEN 0 ELSE u.id],
                   u.err)

\* upsertCorretorPrincipal, upsertOrganizacao: the First by name
ConcOrgFind(r) ==
    /\ rs[r].pc = "cor"
    /\ UNCHANGED <<tables, upstream, published, ret>>
    /\ LET ext == rs[r].det.cor
       IN  IF ext.email = ""
           THEN Step(r, [rs[r] EXCEPT !.pc = WritePc(rs[r]), !.cor = 0],
                     FALSE)
           ELSE IF ext.org.nome = ""
           THEN Step(r, [rs[r] EXCEPT !.pc = "corF", !.org = 0], FALSE)
           ELSE Step(r, [rs[r] EXCEPT
                           !.pc = "orgW",
                           !.found = FindOrgByNome(organizacoes,
                                                   ext.org.nome)],
                     FALSE)

\* upsertOrganizacao: the Save or the Create
ConcOrgWrite(r) ==
    /\ rs[r].pc = "orgW"
    /\ UNCHANGED <<imoveis, enderecos, empreendimentos, precoVendas,
                   precoAlugueis, corretores, anexos, upstream, published,
                   ret>>
    /\ LET o == writeOrganizacao(organizacoes, rs[r].det.cor.org,
                                 rs[r].found, TRUE)
       IN  /\ organizacoes' = o.t
           /\ IF o.err
              THEN Step(r, [rs[r] EXCEPT !.pc = WritePc(rs[r]), !.cor = 0],
                        TRUE)
              ELSE Step(r, [rs[r] EXCEPT !.pc = "corF", !.org = o.id], FALSE)

\* upsertCorretorPrincipal: the First by id_integracao
ConcCorFind(r) ==
    /\ rs[r].pc = "corF"
    /\ UNCHANGED <<tables, upstream, published, ret>>
    /\ Step(r, [rs[r] EXCEPT
                  !.pc = "corW",
                  !.found = FindByKey(corretores, Itoa(rs[r].det.cor.id))],
            FALSE)

\* upsertCorretorPrincipal: the Save or the Create
ConcCorWrite(r) ==
    /\ rs[r].pc = "corW"
    /\ UNCHANGED <<imoveis, enderecos, empreendimentos, precoVendas,
                   precoAlugueis, organizacoes, anexos, upstream, published,
                   ret>>
    /\ LET u == writeCorretor(corretores, rs[r].det.cor, rs[r].org,
                              rs[r].found, TRUE)
       IN  /\ corretores' = u.t
           /\ Step(r, [rs[r] EXCEPT !.pc = WritePc(rs[r]),
                                    !.cor = IF u.err THEN 0 ELSE u.id],
                   u.err)

\* a property for sale with an address, a sale price, an image and a broker
\* of organization A
ConcDetail(e) ==
    [NoDetail EXCEPT !.id = e, !.codigo = Cods[e], !.objetivo = "VENDER",
                     !.titulo = "T1", !.rua = "r1", !.pv = ActivePreco(e),
                     !.cor = [Cor1 EXCEPT !.id = e], !.imgs = <<"u1">>]

ConcList == <<1, 2>>

InitConc ==
    /\ InitStore
    /\ upstream = [e \in ExtIds |-> ConcDetail(e)]
    /\ published = ConcList
    /\ rs = [r \in Runners |-> IdleBatch]
    /\ hist = InitHist
    /\ ret = NoRet

NextConc ==
    \E r \in Runners :
       \/ StartBatch(r)
       \/ FetchList(r, {TRUE})
       \/ FetchDetail(r, {TRUE})
       \/ Lookup(r)
       \/ RelEmpreendimento(r, {TRUE})
       \/ ConcPvFind(r)
       \/ ConcPvWrite(r)
       \/ RelPrecoAluguel(r, {TRUE})
       \/ ConcOrgFind(r)
       \/ ConcOrgWrite(r)
       \/ ConcCorFind(r)
       \/ ConcCorWrite(r)
       \/ UpdateProperty(r, {TRUE})
       \/ UpdateEndereco(r, {"none"})
       \/ CreateAddress(r, {TRUE})
       \/ CreateProperty(r, {TRUE}, {FALSE})
       \/ SyncDelete(r, {TRUE})
       \/ SyncInsert(r, {TRUE})

SpecConc == InitConc /\ [][NextConc]_vars

-----------------------------------------------------------------------------
(* Specification SpecFields: one published property imported and imported   *)
(* again after the provider edited its title, its number of rooms and its   *)
(* business code; the write of the Property row may fail.                   *)

Titulos == {"", "T1", "T2"}
Quartos == {0, 2, 3}
Codigos == {Cods[1], "APX"}

FieldDetails(e) ==
    IF e # 1 THEN {[NoDetail EXCEPT !.id = e, !.codigo = Cods[e]]}
    ELSE {[NoDetail EXCEPT !.id = 1, !.codigo = c, !.objetivo = "VENDER",
                           !.titulo = t, !.quartos = q, !.rua = "r1",
                           !.pv = ActivePreco(1), !.imgs = <<"u1">>] :
            c \in Codigos, t \in Titulos, q \in Quartos}

InitFields ==
    /\ InitStore
    /\ upstream \in [ExtIds -> UNION {FieldDetails(e) : e \in ExtIds}]
    /\ \A e \in ExtIds : upstream[e] \in FieldDetails(e)
    /\ published = <<1>>
    /\ rs = [r \in Runners |-> IdleBatch]
    /\ hist = InitHist
    /\ ret = NoRet

NextFields ==
    \/ StartBatch(1)
    \/ FetchList(1, {TRUE})
    \/ FetchDetail(1, {TRUE})
    \/ Lookup(1)
    \/ RelEmpreendimento(1, {TRUE})
    \/ RelPrecoVenda(1, {TRUE})
    \/ RelPrecoAluguel(1, {TRUE})
    \/ RelCorretorPrincipal(1, {"none"})
    \/ UpdateProperty(1, BOOLEAN)
    \/ UpdateEndereco(1, {"none"})
    \/ CreateAddress(1, {TRUE})
    \/ CreateProperty(1, BOOLEAN, {FALSE})
    \/ SyncDelete(1, {TRUE})
    \/ SyncInsert(1, {TRUE})
    \/ ProviderUpdate([e \in ExtIds |-> FieldDetails(e)], {<<1>>})

SpecFields == InitFields /\ [][NextFields]_vars

-----------------------------------------------------------------------------
(* Specification SpecGate: one published property for sale imported and     *)
(* imported again after the provider changed its prices: each of the sale   *)
(* and rent price is absent, present and inactive, or present and active.   *)
(* The write of the Property row may fail.                                  *)

\* a price the provider has switched off, its amount changed
InactivePreco(id) == [id |-> id, preco |-> 200, aceita |-> FALSE,
                      ativo |-> FALSE, present |-> TRUE]

GatePrecos == {NoPreco, InactivePreco(1), ActivePreco(1)}

GateDetails(e) ==
    IF e # 1 THEN {[NoDetail EXCEPT !.id = e, !.codigo = Cods[e]]}
    ELSE {[NoDetail EXCEPT !.id = 1, !.codigo = Cods[1],
                           !.objetivo = "VENDER", !.titulo = "T1",
                           !.rua = "r1", !.pv = pv, !.pa = pa,
                           !.imgs = <<"u1">>] :
            pv \in GatePrecos, pa \in GatePrecos}

InitGate ==
    /\ InitStore
    /\ upstream \in [ExtIds -> UNION {GateDetails(e) : e \in ExtIds}]
    /\ \A e \in ExtIds : upstream[e] \in GateDetails(e)
    /\ published = <<1>>
    /\ rs = [r \in Runners |-> IdleBatch]
    /\ hist = InitHist
    /\ ret = NoRet

NextGate ==
    \/ StartBatch(1)
    \/ FetchList(1, {TRUE})
    \/ FetchDetail(1, {TRUE})
    \/ Lookup(1)
    \/ RelEmpreendimento(1, {TRUE})
    \/ RelPrecoVenda(1, BOOLEAN)
    \/ RelPrecoAluguel(1, BOOLEAN)
    \/ RelCorretorPrincipal(1, {"none"})
    \/ UpdateProperty(1, BOOLEAN)
    \/ UpdateEndereco(1, {"none"})
    \/ CreateAddress(1, {TRUE})
    \/ CreateProperty(1, {TRUE}, {FALSE})
    \/ SyncDelete(1, {TRUE})
    \/ SyncInsert(1, {TRUE})
    \/ ProviderUpdate([e \in ExtIds |-> GateDetails(e)], {<<1>>})

SpecGate == InitGate /\ [][NextGate]_vars

-----------------------------------------------------------------------------
(* Specification SpecDelete: batches of ImportPublishedProperties run one   *)
(* after the other while a local user soft-deletes imported properties, at  *)
(* any moment, also in the middle of a reconciliation.                      *)

\* a call of DeleteImovel on a stored property, from the local API
LocalDelete ==
    /\ \E id \in 1..Len(imoveis) :
         LET d == DeleteImovel(imoveis, id, TRUE)
         IN  /\ ~d.err
             /\ imoveis' = d.t
    /\ UNCHANGED <<enderecos, empreendimentos, precoVendas, precoAlugueis,
                   corretores, organizacoes, anexos, upstream, published, rs,
                   hist, ret>>

\* the provider's detail of external id e, with one image
DeleteDetail(e) == [SyncDetail(e) EXCEPT !.imgs = <<"u1">>]

InitDelete ==
    /\ InitStore
    /\ upstream = [e \in ExtIds |-> DeleteDetail(e)]
    /\ published \in BatchLists
    /\ rs = [r \in Runners |-> IdleBatch]
    /\ hist = InitHist
    /\ ret = NoRet

NextDelete ==
    \/ StartBatch(1)
    \/ FetchList(1, {TRUE})
    \/ FetchDetail(1, {TRUE})
    \/ Lookup(1)
    \/ RelEmpreendimento(1, {TRUE})
    \/ RelPrecoVenda(1, {TRUE})
    \/ RelPrecoAluguel(1, {TRUE})
    \/ RelCorretorPrincipal(1, {"none"})
    \/ UpdateProperty(1, {TRUE})
    \/ UpdateEndereco(1, {"none"})
    \/ CreateAddress(1, {TRUE})
    \/ CreateProperty(1, {TRUE}, {FALSE})
    \/ SyncDelete(1, {TRUE})
    \/ SyncInsert(1, {TRUE})
    \/ LocalDelete

SpecDelete == InitDelete /\ [][NextDelete]_vars

-----------------------------------------------------------------------------
(* Specification SpecUpsert: the entity upserters called directly, any      *)
(* number of times, with any external record.  ret.op fixes the upserter    *)
(* under exercise.                                                          *)

InitUpsert ==
    /\ InitStore
    /\ upstream = [e \in ExtIds |-> NoDetail]
    /\ published = <<>>
    /\ rs = [r \in Runners |-> IdleBatch]
    /\ hist = InitHist
    /\ \E op \in {"pa", "pv", "emp", "cor"} : ret = [NoRet EXCEPT !.op = op]

Called(ext, pre, r, ok, org) ==
    [key |-> ext.id, id |-> r.id, err |-> r.err, ok |-> ok, org |-> org,
     op |-> ret.op, pre |-> pre]

CallUpsertEmpreendimento ==
    /\ ret.op = "emp"
    /\ \E ext \in EmpRecs, ok \in BOOLEAN :
         LET r == upsertEmpreendimento(empreendimentos, ext, ok)
         IN  /\ empreendimentos' = r.t
             /\ ret' = Called(ext, FindByKey(empreendimentos, Itoa(ext.id)), r, ok, "")
    /\ UNCHANGED <<imoveis, enderecos, precoVendas, precoAlugueis, corretores,
                   organizacoes, anexos, upstream, published, rs, hist>>

CallUpsertPrecoVenda ==
    /\ ret.op = "pv"
    /\ \E ext \in PrecoRecs, ok \in BOOLEAN :
         LET r == upsertPrecoVenda(precoVendas, ext, ok)
         IN  /\ precoVendas' = r.t
             /\ ret' = Called(ext, FindByKey(precoVendas, Itoa(ext.id)), r, ok, "")
    /\ UNCHANGED <<imoveis, enderecos, empreendimentos, precoAlugueis,
                   corretores, organizacoes, anexos, upstream, published, rs,
                   hist>>

CallUpsertPrecoAluguel ==
    /\ ret.op = "pa"
    /\ \E ext \in PrecoRecs, ok \in BOOLEAN :
         LET r == upsertPrecoAluguel(precoAlugueis, ext, ok)
         IN  /\ precoAlugueis' = r.t
             /\ ret' = Called(ext, FindByKey(precoAlugueis, Itoa(ext.id)), r, ok, "")
    /\ UNCHANGED <<imoveis, enderecos, empreendimentos, precoVendas,
                   corretores, organizacoes, anexos, upstream, published, rs,
                   hist>>

CallUpsertCorretorPrincipal ==
    /\ ret.op = "cor"
    /\ \E ext \in CorRecs, fault \in {"org", "cor", "none"} :
         LET r == upsertCorretorPrincipal(organizacoes, corretores, ext,
                                          fault # "org", fault # "cor")
         IN  /\ organizacoes' = r.to
             /\ corretores' = r.tc
             /\ ret' = Called(ext, FindByKey(corretores, Itoa(ext.id)), r,
                              fault = "none", ext.org.nome)
    /\ UNCHANGED <<imoveis, enderecos, empreendimentos, precoVendas,
                   precoAlugueis, anexos, upstream, published, rs, hist>>

NextUpsert ==
    \/ CallUpsertEmpreendimento
    \/ CallUpsertPrecoVenda
    \/ CallUpsertPrecoAluguel
    \/ CallUpsertCorretorPrincipal

SpecUpsert == InitUpsert /\ [][NextUpsert]_vars

-----------------------------------------------------------------------------
(* Properties of the entity upserters (SpecUpsert) *)

NoDupKey(t) ==
    \A i, j \in 1..Len(t) : t[i].idInt = t[j].idInt => i = j

\* C3: correlation stability.  No table of Development, SalePrice, RentPrice
\* or Broker ever holds two rows with the same correlation key, and a call
\* with a non-zero external id whose key already has a row returns, when no
\* persistence call fails, the local id of that row.
C3_CorrelationStable ==
    /\ NoDupKey(empreendimentos)
    /\ NoDupKey(precoVendas)
    /\ NoDupKey(precoAlugueis)
    /\ NoDupKey(corretores)
    /\ (ret.key # 0 /\ ret.pre # 0 /\ ret.ok) => (~ret.err /\ ret.id = ret.pre)

\* a second call for the same broker returned the id of the first
C3_Witness ==
    /\ ret.op = "cor" /\ ret.key # 0 /\ ret.pre # 0 /\ ~ret.err
    /\ ret.id = ret.pre
    /\ Len(corretores) = 2

\* C4 (as claimed): a call that finds an existing row and succeeds leaves
\* every business field of the row equal to the external record's value,
\* for the broker including its languages and service neighbourhoods.
C4_FullOverwrite ==
    [][/\ \A ext \in EmpRecs, ok \in BOOLEAN :
            LET r == upsertEmpreendimento(empreendimentos, ext, ok)
            IN  (/\ CallUpsertEmpreendimento
                 /\ empreendimentos' = r.t
                 /\ ret' = Called(ext, FindByKey(empreendimentos,
                                                 Itoa(ext.id)), r, ok, "")
                 /\ ret'.pre # 0 /\ ~r.err)
                => /\ empreendimentos'[r.id].titulo = ext.titulo
                   /\ empreendimentos'[r.id].finalidade = ext.finalidade
       /\ \A ext \in PrecoRecs, ok \in BOOLEAN :
            LET r == upsertPrecoVenda(precoVendas, ext, ok)
            IN  (/\ CallUpsertPrecoVenda
                 /\ precoVendas' = r.t
                 /\ ret' = Called(ext, FindByKey(precoVendas, Itoa(ext.id)),
                                  r, ok, "")
                 /\ ret'.pre # 0 /\ ~r.err)
                => /\ precoVendas'[r.id].preco = ext.preco
                   /\ precoVendas'[r.id].aceita = ext.aceita
                   /\ precoVendas'[r.id].ativo = ext.ativo
       /\ \A ext \in CorRecs :
            LET r == upsertCorretorPrincipal(organizacoes, corretores, ext,
                                             TRUE, TRUE)
            IN  (/\ CallUpsertCorretorPrincipal
                 /\ organizacoes' = r.to
                 /\ corretores' = r.tc
                 /\ ret' = Called(ext, FindByKey(corretores, Itoa(ext.id)), r,
                                  TRUE, ext.org.nome)
                 /\ ret'.pre # 0 /\ ~r.err)
                => /\ corretores'[r.id].nome = ext.nome
                   /\ corretores'[r.id].email = ext.email
                   /\ corretores'[r.id].idiomas = ext.idiomas
      ]_vars

NoDupNome(t) ==
    \A i, j \in 1..Len(t) : t[i].nome = t[j].nome => i = j

-----------------------------------------------------------------------------
(* Properties of the batch driver (Spec) *)

Distinct(l) == \A i, j \in 1..Len(l) : l[i] = l[j] => i = j

\* C1: idempotency of the batch.  From an empty store, with a published list
\* of N distinct properties and no fetch or persistence call returning an
\* error, the first batch ends with created = N, updated = 0, failed = 0; if
\* the provider's data did not change, the second ends with created = 0,
\* updated = N, failed = 0 and the same Property rows by external id.
C1_Idempotent ==
    LET b == rs[1]
        N == Len(b.list)
    IN  (b.pc = "done" /\ ~hist.err /\ Distinct(b.list)) =>
          /\ hist.runs = 1 =>
               (b.created = N /\ b.updated = 0 /\ b.failed = 0)
          /\ (hist.runs = 2 /\ ~hist.changed) =>
               /\ b.created = 0 /\ b.updated = N /\ b.failed = 0
               /\ Rows(imoveis) = hist.rows1

\* the second batch over two unchanged properties has finished
C1_Witness ==
    /\ rs[1].pc = "done" /\ hist.runs = 2 /\ ~hist.err /\ ~hist.changed
    /\ Len(rs[1].list) = 2 /\ Distinct(rs[1].list)
    /\ rs[1].updated = 2
    /\ Len(imoveis) = 2

\* the reconciliation of an item is under way (the lookup has been made)
Reconciling(b) ==
    b.pc \in {"pa", "pv", "emp", "cor", "update", "endereco", "create",
              "attach"}

\* C2: at most one Property row per external id; rows are never re-keyed, a
\* row is inserted only for an external id that has none, and an item whose
\* external id has a row is reconciled as an update of that very row.
C2_OneRowInv ==
    /\ NoDupKey(imoveis)
    /\ Reconciling(rs[1]) =>
         LET existing == FindByKey(imoveis, Itoa(rs[1].det.id))
         IN  /\ rs[1].isUpdate <=> existing # 0
             /\ rs[1].isUpdate => rs[1].imovelID = existing

C2_OneRowStep ==
    /\ Len(imoveis') >= Len(imoveis)
    /\ \A i \in 1..Len(imoveis) : imoveis'[i].idInt = imoveis[i].idInt
    /\ Len(imoveis') > Len(imoveis) =>
         ~KeyTaken(imoveis, imoveis'[Len(imoveis')].idInt)
    /\ rs'[1].updated > rs[1].updated => Len(imoveis') = Len(imoveis)

C7_FetchFailStep ==
    rs'[1].nofetch = rs[1].nofetch + 1 =>
      /\ rs'[1].failed = rs[1].failed + 1
      /\ rs'[1].created = rs[1].created
      /\ rs'[1].updated = rs[1].updated
      /\ tables' = tables
      /\ Len(rs'[1].outcomes) = Len(rs[1].outcomes) + 1
      /\ rs[1].idx < Len(rs[1].list) =>
           (rs'[1].pc = "detail" /\ rs'[1].idx = rs[1].idx + 1)

C7_NoEarlyEnd ==
    (rs[1].pc = "done" /\ rs[1].list # <<>>) =>
      /\ rs[1].result = "completed"
      /\ Len(rs[1].outcomes) = Len(rs[1].list)
      /\ rs[1].created + rs[1].updated + rs[1].failed = Len(rs[1].list)

C7_PartialBatch == []C7_NoEarlyEnd /\ [][C7_FetchFailStep]_vars

\* the detail fetch of the first item failed and the second was created
C7_Witness ==
    /\ rs[1].pc = "done"
    /\ rs[1].nofetch = 1
    /\ rs[1].outcomes = <<"failed", "created">>
    /\ rs[1].failed = 1 /\ rs[1].created = 1

\* C10: fatal to the batch.  When the list fetch fails or returns no item
\* the batch returns at once with the fatal error: no detail is fetched, no
\* item gets an outcome, no row changes.
C10_FatalInv ==
    /\ (rs[1].pc \notin {"list", "idle"} /\ rs[1].list = <<>>) =>
         (rs[1].pc = "done" /\ rs[1].result = "fatal")
    /\ rs[1].result = "fatal" =>
         /\ rs[1].pc = "done"
         /\ rs[1].outcomes = <<>> /\ rs[1].nofetch = 0
         /\ rs[1].det = NoDetail /\ rs[1].idx = 0

C10_FatalStep ==
    (rs[1].pc = "list" /\ rs'[1].list = <<>>) =>
      (tables' = tables /\ rs'[1].result = "fatal")

C10_FatalToBatch == []C10_FatalInv /\ [][C10_FatalStep]_vars

\* a batch aborted on an empty or failed list while rows exist
C10_Witness ==
    /\ rs[1].result = "fatal"
    /\ hist.runs = 2
    /\ Len(imoveis) > 0

-----------------------------------------------------------------------------
(* Claims checked under SpecRec *)

RefCols == {"pa", "pv", "emp", "cor"}

\* the ids of the rows of property p, all of them or the live ones
Owned(t, p) == {i \in 1..Len(t) : t[i].imovel = p}
Live(t, p) == {i \in Owned(t, p) : ~t[i].deleted}

\* C5: on the update path, a reference (Development, SalePrice, RentPrice,
\* Broker) that this run did not resolve and that the property holds from an
\* earlier run is the same after the update; and no step of a reconciliation
\* turns a held reference into NULL or 0.
C5_ReferenceKept ==
    [][\A i \in 1..Len(imoveis), f \in RefCols :
          /\ (/\ rs[1].pc = "update"
              /\ rs[1].imovelID = i
              /\ rs[1][f] = 0
              /\ imoveis[i][f] \notin {Null, 0})
             => imoveis'[i][f] = imoveis[i][f]
          /\ imoveis[i][f] \notin {Null, 0}
             => imoveis'[i][f] \notin {Null, 0}]_vars

\* an update went through although this run resolved no Development, no
\* SalePrice and no Broker, all three held from the earlier run
C5_Witness ==
    /\ rs[1].pc = "attach"
    /\ rs[1].emp = 0 /\ rs[1].pv = 0 /\ rs[1].cor = 0
    /\ \A f \in {"pv", "emp", "cor"} :
          imoveis[rs[1].imovelID][f] \notin {Null, 0}

\* the price that CreateImovel requires for the objective is resolved
PriceRuleMet(b) ==
    /\ b.det.objetivo = "ALUGAR" => b.pa # 0
    /\ b.det.objetivo = "VENDER" => b.pv # 0

\* C8: no Property row stores 0 in its Address, Development, SalePrice,
\* RentPrice or Broker reference; and a create whose related entity (or
\* address) was not resolved, the price of its objective apart, succeeds
\* whenever the store itself does not fail.
C8_ZeroFkOmission ==
    /\ \A i \in 1..Len(imoveis), f \in RefCols \cup {"end"} :
          imoveis[i][f] # 0
    /\ (/\ rs[1].pc = "create"
        /\ PriceRuleMet(rs[1])
        /\ \E f \in RefCols \cup {"endID"} : rs[1][f] = 0)
       => \A fk \in BOOLEAN :
             ~CreateImovel(imoveis,
                           transformExternalToCreateRequest(
                               rs[1].det, rs[1].endID, rs[1].emp, rs[1].pv,
                               rs[1].pa, rs[1].cor),
                           TRUE, fk).err

\* the detail asks for the related entity f and this run did not resolve it
Failed(b, f) ==
    /\ b[f] = 0
    /\ CASE f = "emp" -> b.det.emp.present
         [] f = "pv" -> b.det.pv.present /\ b.det.pv.ativo
         [] f = "pa" -> b.det.pa.present /\ b.det.pa.ativo
         [] f = "cor" -> b.det.cor.email # ""

\* C11: when the resolution of a related entity failed, the write of the
\* Property row that follows (create or update) still succeeds whenever the
\* store itself does not fail, whatever the objective.
C11_RelatedNeverFatal ==
    /\ (/\ rs[1].pc = "create"
        /\ rs[1].endID # 0
        /\ \E f \in RefCols : Failed(rs[1], f))
       => \A fk \in BOOLEAN :
             ~CreateImovel(imoveis,
                           transformExternalToCreateRequest(
                               rs[1].det, rs[1].endID, rs[1].emp, rs[1].pv,
                               rs[1].pa, rs[1].cor),
                           TRUE, fk).err
    /\ (/\ rs[1].pc = "update"
        /\ \E f \in RefCols : Failed(rs[1], f))
       => ~UpdateImovel(imoveis, rs[1].imovelID, UpdateRequest(rs[1]),
                        TRUE).err

\* the step on which the attachment synchronization of an item ends
SyncEnds ==
    /\ rs[1].pc \in {"syncDel", "syncIns"}
    /\ rs'[1].pc \notin {"syncDel", "syncIns"}

\* C12: the attachment synchronization, failed or not, leaves the Property
\* rows as the write before it left them, and when it ends the item is
\* counted created (create branch) or updated (update branch), never failed.
C12_SyncNonBlocking ==
    [][/\ rs[1].pc \in {"syncDel", "syncIns"} => imoveis' = imoveis
       /\ SyncEnds =>
            /\ FindByID(imoveis', rs[1].imovelID) # 0
            /\ rs'[1].failed = rs[1].failed
            /\ rs'[1].outcomes =
                  Append(rs[1].outcomes,
                         IF rs[1].isUpdate THEN "updated" ELSE "created")]_vars

\* the first batch ended, its property is stored and counted created, and
\* no attachment of it is live although its detail carries an image: the
\* synchronization failed
C12_Witness ==
    /\ rs[1].pc = "done" /\ hist.runs = 1
    /\ rs[1].outcomes = <<"created">>
    /\ FindByID(imoveis, 1) # 0
    /\ Live(anexos, 1) = {}

\* the steps of a reconciliation that may come right before each step
PrevPc ==
    [pa |-> {"pv"}, pv |-> {"emp"}, emp |-> {"lookup"}, cor |-> {"pa"},
     update |-> {"cor"}, endereco |-> {"cor"}, create |-> {"endereco"},
     attach |-> {"update"}, syncDel |-> {"create", "attach"},
     syncIns |-> {"syncDel", "syncIns"}]

\* C13: in every reconciliation the four related upserts are attempted, in
\* their order, before the Property row is written, on either branch; the
\* related tables are written in those steps only and the Property rows in
\* the write steps only; the attachments are synchronized only after the
\* Property write succeeded, with the local id of the row just written.
C13_ReconcileOrder ==
    [][/\ (rs'[1].pc # rs[1].pc /\ rs'[1].pc \in DOMAIN PrevPc)
          => rs[1].pc \in PrevPc[rs'[1].pc]
       /\ empreendimentos' # empreendimentos => rs[1].pc = "emp"
       /\ precoVendas' # precoVendas => rs[1].pc = "pv"
       /\ precoAlugueis' # precoAlugueis => rs[1].pc = "pa"
       /\ <<corretores', organizacoes'>> # <<corretores, organizacoes>>
          => rs[1].pc = "cor"
       /\ imoveis' # imoveis => rs[1].pc \in {"update", "create", "attach"}
       /\ anexos' # anexos => rs[1].pc \in {"syncDel", "syncIns"}
       /\ rs'[1].pc = "syncDel" =>
            /\ FindByID(imoveis', rs'[1].imovelID) # 0
            /\ imoveis'[rs'[1].imovelID].idInt = Itoa(rs'[1].det.id)
            /\ rs[1].pc = "create" =>
                 /\ ~rs[1].isUpdate
                 /\ Len(imoveis') = Len(imoveis) + 1
                 /\ rs'[1].imovelID = Len(imoveis')
            /\ rs[1].pc = "attach" =>
                 /\ rs[1].isUpdate
                 /\ rs'[1].imovelID = rs[1].imovelID]_vars

\* an update whose Development and Broker were resolved in this run has
\* reached the attachment synchronization
C13_Witness ==
    /\ rs[1].pc = "syncDel" /\ rs[1].isUpdate
    /\ rs[1].emp # 0 /\ rs[1].cor # 0
    /\ FindByID(imoveis, rs[1].imovelID) # 0

AddressesKept ==
    /\ Len(enderecos') >= Len(enderecos)
    /\ \A i \in 1..Len(enderecos) : enderecos'[i] = enderecos[i]

\* what the address step does for a detail with a street when the store
\* does not fail: one new row, the newest, and the property points at it
C16_FreshAddress ==
    /\ (rs[1].pc \in {"endereco", "attach"} /\ rs[1].det.rua # "")
       => LET c == createEndereco(enderecos, rs[1].det.rua, TRUE)
          IN  /\ ~c.err
              /\ c.id = Len(enderecos) + 1
              /\ c.t = Append(enderecos, [rua |-> rs[1].det.rua])
              /\ rs[1].pc = "attach" =>
                   LET a == AttachEndereco(imoveis, rs[1].imovelID, c.id,
                                           TRUE)
                   IN  ~a.err /\ a.t[rs[1].imovelID].end = c.id
    /\ rs[1].pc = "create" /\ rs[1].det.rua # ""
       => rs[1].endID = Len(enderecos)

\* the address step of an update either did just that, or inserted nothing
\* and left the property alone (insert failed), or inserted the row and left
\* the property alone (attach failed); the create writes the id of the row
\* its address step inserted; no step changes or removes an Address row
C16_AddressStep ==
    /\ AddressesKept
    /\ (rs[1].pc = "attach" /\ rs[1].det.rua # "") =>
         LET c == createEndereco(enderecos, rs[1].det.rua, TRUE)
             a == AttachEndereco(imoveis, rs[1].imovelID, c.id, TRUE)
         IN  \/ enderecos' = c.t /\ imoveis' = a.t
             \/ enderecos' = enderecos /\ imoveis' = imoveis
             \/ enderecos' = c.t /\ imoveis' = imoveis
    /\ (rs[1].pc = "create" /\ rs'[1].pc = "syncDel"
        /\ rs[1].det.rua # "") =>
         /\ imoveis'[rs'[1].imovelID].end = rs[1].endID
         /\ \A i \in 1..Len(imoveis) : imoveis[i].end # rs[1].endID

-----------------------------------------------------------------------------
(* Claims checked under SpecSync *)

\* the k-th smallest id of S
Nth(S, k) == CHOOSE i \in S : Cardinality({j \in S : j < i}) = k - 1

\* the rows S are new, one per entry of L, in input order
Recreated(t, S, L, pre) ==
    /\ Cardinality(S) = Len(L)
    /\ \A i \in S : i > pre
    /\ \A k \in 1..Len(L) : /\ t[Nth(S, k)].url = L[k]
                            /\ t[Nth(S, k)].nome = k

\* the step on which syncAnexosFromImages returns nil
SyncReturnsNil ==
    /\ rs[1].pc \in {"syncDel", "syncIns"}
    /\ rs'[1].pc = "done"
    /\ ~hist'.err

\* C6, as claimed: after syncAnexosFromImages(p, L) returns without error
\* the attachment rows of p are exactly len(L) new rows, one per entry of L
\* in input order, and no row that p owned before the call is left.
C6_Replacement ==
    [][SyncReturnsNil =>
         LET p == rs[1].imovelID
             L == rs[1].det.imgs
         IN  /\ Recreated(anexos', Owned(anexos', p), L, ret.pre)
             /\ \A i \in 1..ret.pre : anexos'[i].imovel # p]_vars

\* C6, amended: after syncAnexosFromImages(p, L) returns without error the
\* attachments of p that are not soft-deleted are exactly len(L) new rows,
\* one per entry of L in input order, and every row that p owned before the
\* call is still stored, soft-deleted and otherwise as it was.
C6_ReplacementLive ==
    [][SyncReturnsNil =>
         LET p == rs[1].imovelID
             L == rs[1].det.imgs
         IN  /\ Recreated(anexos', Live(anexos', p), L, ret.pre)
             /\ \A i \in 1..ret.pre :
                   /\ anexos'[i].imovel = p => anexos'[i].deleted
                   /\ anexos'[i].imovel = anexos[i].imovel
                   /\ anexos'[i].url = anexos[i].url]_vars

\* a second synchronization of a property returned nil: its two earlier
\* attachments are soft-deleted, two new ones are live
C6_Witness ==
    /\ rs[1].pc = "done"
    /\ ret.op = "sync"
    /\ ~hist.err
    /\ \E p \in 1..Len(imoveis) :
          /\ Cardinality(Live(anexos, p)) = 2
          /\ Cardinality(Owned(anexos, p) \ Live(anexos, p)) = 2
          /\ \A i \in Live(anexos, p) : i > ret.pre

\* C14: after an import of a property whose attachment synchronization
\* returned nil, no two attachments that the property owns (soft-deleted
\* rows apart) have the same URL.
C14_NoDuplicateUrl ==
    (rs[1].pc = "done" /\ ret.op = "sync" /\ ~hist.err)
    => \A p \in 1..Len(imoveis) :
          \A i, j \in Live(anexos, p) :
             anexos[i].url = anexos[j].url => i = j

-----------------------------------------------------------------------------
(* Claims checked under Spec, continued *)

\* C15: when the batch ran to completion (the list was fetched and every
\* item processed) the handler answers 200 with success = true.
C15_HandlerOk ==
    (rs[1].pc = "done" /\ rs[1].result = "completed")
    => /\ ImportProperties(rs[1]).status = 200
       /\ ImportProperties(rs[1]).success

\* no row of t is removed or marked deleted
Grows(t, u) ==
    /\ Len(u) >= Len(t)
    /\ \A i \in 1..Len(t) : u[i].deleted = t[i].deleted

\* C17: in every step of a batch the Property, Address, Development,
\* SalePrice, RentPrice, Broker and Organization rows only grow or stay, none
\* is removed or marked deleted, and the attachments of every property other
\* than the one being reconciled are left as they are.
C17_NothingDeleted ==
    [][/\ Grows(imoveis, imoveis')
       /\ Grows(empreendimentos, empreendimentos')
       /\ Grows(precoVendas, precoVendas')
       /\ Grows(precoAlugueis, precoAlugueis')
       /\ Grows(corretores, corretores')
       /\ Grows(organizacoes, organizacoes')
       /\ Len(enderecos') >= Len(enderecos)
       /\ \A i \in 1..Len(anexos) :
             anexos[i].imovel # rs[1].imovelID => anexos'[i] = anexos[i]]_vars

\* the attachments of one property were replaced while another property
\* keeps its live attachment
C17_Witness ==
    \E p, q \in 1..Len(imoveis) :
       /\ p # q
       /\ Owned(anexos, p) \ Live(anexos, p) # {}
       /\ Live(anexos, p) # {}
       /\ Live(anexos, q) # {}
       /\ Len(empreendimentos) > 0 /\ Len(corretores) > 0

Counted(b) == b.created + b.updated + b.failed

\* the step on which the processing of a summary item ends
ItemEnds ==
    /\ rs[1].pc \notin {"list", "idle", "done"}
    /\ rs'[1].idx # rs[1].idx \/ rs'[1].pc = "done"

\* every item processed so far was counted once; a finished batch counted
\* every summary item
C20_CountersInv ==
    /\ Counted(rs[1]) = Len(rs[1].outcomes)
    /\ rs[1].pc \notin {"list", "idle", "done"}
       => Counted(rs[1]) = rs[1].idx - 1
    /\ (rs[1].pc = "done" /\ rs[1].result = "completed")
       => Counted(rs[1]) = Len(rs[1].list)
    /\ rs[1].pc \in {"pa", "pv", "emp", "cor", "update", "endereco", "create"}
       => (rs[1].isUpdate <=>
             FindByKey(imoveis, Itoa(rs[1].det.id)) # 0)

\* the end of an item moves exactly one counter, by one: created when no
\* row existed and the create went through, updated when one existed and
\* the update went through, failed otherwise; no other step of the batch
\* moves a counter
C20_CountersStep ==
    LET b == rs[1]
        c == rs'[1]
        wrote == b.pc \in {"syncDel", "syncIns"}
    IN  /\ ItemEnds =>
             /\ c.created = b.created + (IF wrote /\ ~b.isUpdate THEN 1 ELSE 0)
             /\ c.updated = b.updated + (IF wrote /\ b.isUpdate THEN 1 ELSE 0)
             /\ c.failed = b.failed + (IF wrote THEN 0 ELSE 1)
             /\ wrote => /\ FindByID(imoveis', b.imovelID) # 0
                         /\ imoveis'[b.imovelID].idInt = Itoa(b.det.id)
        /\ (~ItemEnds /\ c.pc # "list") =>
             <<c.created, c.updated, c.failed>>
                = <<b.created, b.updated, b.failed>>

\* C20: for every summary item of a non-empty list exactly one of created,
\* updated, failed is incremented, by one, as the item's outcome tells, and a
\* finished batch has created + updated + failed = number of summary items.
C20_CounterAccounting == []C20_CountersInv /\ [][C20_CountersStep]_vars

\* a second batch over two items finished with one update and one failure
C20_Witness ==
    /\ rs[1].pc = "done" /\ rs[1].result = "completed" /\ hist.runs = 2
    /\ Len(rs[1].list) = 2
    /\ rs[1].updated = 1 /\ rs[1].failed = 1

-----------------------------------------------------------------------------
(* Claims checked under SpecConc *)

\* C18: under two concurrent batches the lookup-or-create of an
\* Organization by name never leaves two Organization rows with one name.
C18_NoDuplicateOrg == NoDupNome(organizacoes)

\* the positions of runner r's list at which external id e was counted
\* created
CreatedAt(r, e) ==
    {i \in 1..Len(rs[r].outcomes) :
        rs[r].list[i] = e /\ rs[r].outcomes[i] = "created"}

\* C19: under two concurrent batches over the same published list no two
\* Property rows carry the same external id, and each property is counted
\* created by at most one of the two runs, once.
C19_OneRowConcurrent ==
    /\ NoDupKey(imoveis)
    /\ \A e \in ExtIds :
          /\ \A r, q \in Runners :
                \A i \in CreatedAt(r, e), j \in CreatedAt(q, e) :
                    r = q /\ i = j
          /\ (\E r \in Runners : CreatedAt(r, e) # {})
             => FindByKey(imoveis, Itoa(e)) # 0

\* the two runs overlapped on a property: one counted it created, the
\* other, whose lookup had found no row, had its create refused
C19_Witness ==
    /\ \A r \in Runners : rs[r].pc = "done" /\ rs[r].result = "completed"
    /\ \E e \in ExtIds, r, q \in Runners, i \in 1..Len(ConcList) :
          /\ r # q /\ ConcList[i] = e
          /\ rs[r].outcomes[i] = "created"
          /\ rs[q].outcomes[i] = "failed"
    /\ Len(imoveis) = Len(ConcList)

-----------------------------------------------------------------------------
(* Claims checked under Spec, third part *)

\* the number of positions of the outcome sequence s that hold o
CountOf(s, o) == Cardinality({i \in 1..Len(s) : s[i] = o})

\* C21: ImportPublishedProperties returns a non-nil error on every path: a
\* fatal error when the list fetch failed or the list was empty, otherwise
\* the completion error, whose message carries the numbers of items created,
\* updated and failed, also when none failed.
C21_AlwaysError ==
    \A r \in Runners :
        rs[r].pc = "done" =>
            LET e == ReturnedError(rs[r])
            IN  /\ e # NilError
                /\ Len(rs[r].list) = 0 => e.msg = "failed to fetch properties"
                /\ Len(rs[r].list) > 0 =>
                      /\ e.msg = "import completed"
                      /\ e.created = CountOf(rs[r].outcomes, "created")
                      /\ e.updated = CountOf(rs[r].outcomes, "updated")
                      /\ e.failed = CountOf(rs[r].outcomes, "failed")
                      /\ e.created + e.updated + e.failed = Len(rs[r].list)

\* a batch that created one property and updated another, none failed
C21_Witness ==
    /\ rs[1].pc = "done" /\ rs[1].result = "completed"
    /\ ReturnedError(rs[1]).failed = 0
    /\ ReturnedError(rs[1]).created = 1
    /\ ReturnedError(rs[1]).updated = 1

-----------------------------------------------------------------------------
(* Claims checked under SpecFields *)

\* C22: on the update path, right after a successful update, the scalar
\* business fields of the local Property (here title, purpose and number of
\* rooms) equal the values of the external detail of this run, also when
\* the external value is empty or zero.
C22_ScalarsOverwritten ==
    \A r \in Runners :
        rs[r].pc = "attach" =>
            /\ imoveis[rs[r].imovelID].titulo = rs[r].det.titulo
            /\ imoveis[rs[r].imovelID].objetivo = rs[r].det.objetivo
            /\ imoveis[rs[r].imovelID].quartos = rs[r].det.quartos

\* C23: no step of an import changes the local id, the external id or the
\* business code of a stored Property row, whatever the external detail's
\* code has become.
C23_KeysStable ==
    [][/\ Len(imoveis') >= Len(imoveis)
       /\ \A i \in 1..Len(imoveis) :
             /\ imoveis'[i].idInt = imoveis[i].idInt
             /\ imoveis'[i].codigo = imoveis[i].codigo]_vars

\* a re-import whose detail carries another code and another title has
\* updated the row: the title is the new one, the code the old one
C23_Witness ==
    /\ rs[1].pc = "attach" /\ rs[1].isUpdate /\ hist.changed
    /\ rs[1].det.codigo = "APX" /\ rs[1].det.titulo = "T2"
    /\ imoveis[rs[1].imovelID].titulo = "T2"
    /\ imoveis[rs[1].imovelID].codigo = Cods[1]
    /\ imoveis[rs[1].imovelID].idInt = Itoa(1)

-----------------------------------------------------------------------------
(* Claims checked under SpecUpsert, continued *)

\* C24: a call of the Broker upserter whose external record (with an id and
\* an e-mail, as every external record but the empty one has) has an empty
\* organization name, none of its persistence calls failing, returns no
\* error and leaves the Organization table as it was, and the Broker row it
\* creates carries no organization reference: null, never organization 0.
C24_NoOrgNoReference ==
    [][(ret'.op = "cor" /\ ret'.key # 0 /\ ret'.org = "" /\ ret'.ok)
         => /\ ~ret'.err
            /\ organizacoes' = organizacoes
            /\ ret'.pre = 0 => corretores'[ret'.id].org = Null]_vars

-----------------------------------------------------------------------------
(* Claims checked under SpecRec, continued *)

\* the Organization table holds the organization of the external record
OrgResolved(t, extOrg) ==
    \E i \in 1..Len(t) : t[i].nome = extOrg.nome /\ t[i].perfil = extOrg.perfil

\* C25: the Broker upserter resolves its Organization first.  For a broker
\* with a non-empty organization name a Broker row is written only in a step
\* that leaves the Organization stored; a step whose Organization upsert
\* failed writes no Broker row and leaves the broker reference of the
\* reconciliation unresolved, and the reconciliation goes on to the Property
\* write, where a created row gets no broker reference.
C25_OrgFirst ==
    [][/\ (rs[1].pc = "cor" /\ rs[1].det.cor.email # ""
           /\ rs[1].det.cor.org.nome # "")
          => /\ corretores' # corretores
                  => OrgResolved(organizacoes', rs[1].det.cor.org)
             /\ ~OrgResolved(organizacoes', rs[1].det.cor.org)
                  => /\ corretores' = corretores
                     /\ rs'[1].cor = 0
                     /\ rs'[1].pc \in {"update", "endereco"}
                     /\ rs'[1].outcomes = rs[1].outcomes
       /\ (rs[1].pc = "create" /\ rs'[1].pc = "syncDel" /\ rs[1].cor = 0)
          => imoveis'[rs'[1].imovelID].cor = Null]_vars

\* a property was created although the Organization upsert of its broker
\* had failed: no Organization, no Broker, no broker reference
C25_Witness ==
    /\ rs[1].pc = "syncDel" /\ ~rs[1].isUpdate
    /\ rs[1].det.cor.email # "" /\ rs[1].det.cor.org.nome # ""
    /\ organizacoes = <<>> /\ corretores = <<>>
    /\ rs[1].cor = 0
    /\ imoveis[rs[1].imovelID].cor = Null

-----------------------------------------------------------------------------
(* Claims checked under SpecHeal *)

\* the first n entries of L
Prefix(L, n) == SubSeq(L, 1, n)

\* C26: the attachment synchronization is not atomic but self-healing.  Once
\* its delete is done the property has none of its earlier attachments; at
\* every insert step, failed or not, its attachments are those inserted so
\* far, one per entry of a prefix of the image list (none when the first
\* insert fails); and a synchronization that returns nil, whatever the call
\* before did, leaves exactly the attachments of its own image list.
\* Attachments are the rows not soft-deleted.
C26_SelfHealing ==
    [][LET q == rs[1].imovelID
           L == rs[1].det.imgs
           n == IF hist'.err THEN rs[1].k ELSE rs[1].k + 1
       IN  /\ (rs[1].pc = "syncDel" /\ ~hist'.err)
                => Live(anexos', q) = {}
           /\ rs[1].pc = "syncIns"
                => /\ Recreated(anexos', Live(anexos', q), Prefix(L, n),
                                ret.pre)
                   /\ hist'.err => /\ rs'[1].pc = "done"
                                   /\ anexos' = anexos
           /\ SyncReturnsNil
                => Recreated(anexos', Live(anexos', q), L, ret.pre)]_vars

\* the third synchronization returned nil after the second had failed on
\* its second insert: the two attachments of the first and the one of the
\* second are soft-deleted, those of the third are the live ones
C26_Witness ==
    /\ rs[1].pc = "done" /\ ret.op = "sync" /\ ~hist.err
    /\ hist.runs = 3
    /\ ret.err /\ ret.id = 1 /\ ret.pre = 3
    /\ \A i \in 1..3 : anexos[i].deleted
    /\ Live(anexos, 1) = {4, 5}

-----------------------------------------------------------------------------
(* Claims checked under SpecGate *)

\* the price record is present and marked active
Active(preco) == preco.present /\ preco.ativo

\* C27: price gating by the active flag.  When the detail's SalePrice
\* (RentPrice) is absent or inactive, its step of the reconciliation leaves
\* the SalePrice (RentPrice) table as it was and resolves no local id, no
\* other step writes that table, and the update of the Property row leaves
\* the row's sale (rent) price reference as it was.
C27_PriceGating ==
    [][/\ ~Active(rs[1].det.pv)
            => /\ precoVendas' = precoVendas
               /\ rs[1].pc = "pv" => rs'[1].pv = 0
               /\ (rs[1].pc = "update" /\ rs'[1].pc = "attach")
                    => imoveis'[rs[1].imovelID].pv = imoveis[rs[1].imovelID].pv
       /\ ~Active(rs[1].det.pa)
            => /\ precoAlugueis' = precoAlugueis
               /\ rs[1].pc = "pa" => rs'[1].pa = 0
               /\ (rs[1].pc = "update" /\ rs'[1].pc = "attach")
                    => imoveis'[rs[1].imovelID].pa = imoveis[rs[1].imovelID].pa
      ]_vars

\* a property imported with both prices active was updated from a detail
\* whose sale price is inactive and whose rent price is absent: both
\* references and both price rows are as the first import left them
C27_Witness ==
    /\ rs[1].pc = "attach" /\ rs[1].isUpdate
    /\ rs[1].det.pv = InactivePreco(1) /\ rs[1].det.pa = NoPreco
    /\ imoveis[rs[1].imovelID].pv = 1 /\ imoveis[rs[1].imovelID].pa = 1
    /\ precoVendas[1].preco = 100 /\ precoVendas[1].ativo
    /\ Len(precoAlugueis) = 1

-----------------------------------------------------------------------------
(* Claims checked under SpecRec, third part *)

\* C28: on the create path a failed Address creation is fatal to the item.
\* The step of a detail with a street that adds no Address row ends the item:
\* it is counted failed, no Property row and no attachment is written, the
\* reconciliation does not go on to the create or to the synchronization,
\* and the related entities upserted before stay as they are.
C28_AddressFatal ==
    [][(rs[1].pc = "endereco" /\ rs[1].det.rua # "" /\ enderecos' = enderecos)
         => /\ rs'[1].pc \in {"detail", "done"}
            /\ rs'[1].failed = rs[1].failed + 1
            /\ rs'[1].outcomes = Append(rs[1].outcomes, "failed")
            /\ rs'[1].created = rs[1].created
            /\ rs'[1].updated = rs[1].updated
            /\ UNCHANGED <<imoveis, anexos, empreendimentos, precoVendas,
                           precoAlugueis, corretores, organizacoes>>]_vars

\* the first import of a property with a street, a development, a sale
\* price and a broker ended failed with no Address and no Property stored,
\* its related entities persisted
C28_Witness ==
    /\ rs[1].pc = "done" /\ rs[1].outcomes = <<"failed">>
    /\ hist.runs = 1 /\ ~hist.changed
    /\ upstream[1].rua # ""
    /\ enderecos = <<>> /\ imoveis = <<>> /\ anexos = <<>>
    /\ Len(empreendimentos) = 1 /\ Len(precoVendas) = 1
    /\ Len(corretores) = 1 /\ Len(organizacoes) = 1

-----------------------------------------------------------------------------
(* Claims checked under SpecDelete *)

\* C29: whatever the interleaving of import batches with local soft-deletes
\* of imported properties, no two Property rows, soft-deleted rows counted,
\* carry the same external id.
C29_NoDupAfterDelete == NoDupKey(imoveis)

\* a property imported by the first batch was soft-deleted and the second
\* batch met it again: its create was refused, the one row is the deleted one
C29_Witness ==
    /\ rs[1].pc = "done" /\ hist.runs = 2
    /\ published = <<1>> /\ rs[1].outcomes = <<"failed">>
    /\ Len(imoveis) = 1 /\ imoveis[1].deleted
    /\ imoveis[1].idInt = Itoa(1)

-----------------------------------------------------------------------------
(* Claims checked under SpecUpsert, third part *)

HasKey(t, key) == \E i \in 1..Len(t) : t[i].idInt = key

\* C30 (as claimed): every upserter keyed by external id rejects external
\* id 0.  A call of upsertEmpreendimento, upsertPrecoVenda, upsertPrecoAluguel
\* or upsertCorretorPrincipal with an external record whose id is 0 returns
\* an error and writes nothing, and no Development, SalePrice, RentPrice or
\* Broker row ever carries the correlation key "0".
C30_RejectsIdZero ==
    [][/\ ret'.key = 0
          => /\ ret'.err
             /\ UNCHANGED <<empreendimentos, precoVendas, precoAlugueis,
                            corretores, organizacoes>>
       /\ ~HasKey(empreendimentos', Itoa(0))
       /\ ~HasKey(precoVendas', Itoa(0))
       /\ ~HasKey(precoAlugueis', Itoa(0))
       /\ ~HasKey(corretores', Itoa(0))
      ]_vars

====
